---------------------------- MODULE Spec2Model ----------------------------
(***************************************************************************)
(* Model of src/src/index.js (AccessibleMenu, MenuController, MenuLinks,   *)
(* MenuButton).  The program keeps all of its state in DOM attributes and  *)
(* in the listener lists of the DOM, so the model is a small DOM: a        *)
(* document is a sequence of element records in document order, the        *)
(* attributes that the code reads and writes are the variable attr, and    *)
(* the registered listeners are the variable listeners.                    *)
(*                                                                         *)
(* element.focus() moves the focus only to an element that can take it: a  *)
(* button, an a element with an href, or an element with a tabindex.  The  *)
(* program sets no tabindex, so a span Controller is focusable only where  *)
(* the markup says so.                                                     *)
(***************************************************************************)
EXTENDS Integers, Sequences, FiniteSets, TLC

(***************************************************************************)
(* Bounds of the model.                                                    *)
(***************************************************************************)
\* number of click listeners the model lets the window hold
MaxWindowListeners == 2
\* size of the space Math.random() is cut down to (10000 in the source)
RandomSpace == 2

(***************************************************************************)
(* Attribute values.  Null is getAttribute()'s answer for a missing one.   *)
(***************************************************************************)
Null == "null"

Digits == <<"0", "1", "2", "3", "4", "5", "6", "7", "8", "9">>

\* Number.prototype.toString for the naturals of the model
RECURSIVE toString(_)
toString(n) ==
    IF n < 10 THEN Digits[n + 1]
    ELSE toString(n \div 10) \o Digits[(n % 10) + 1]

\* the numbers the attributes of the markup spell out
Numerals == 0..9 \cup {768, 900}

\* parseInt on an attribute value; NaN is -1
parseInt(s) ==
    IF \E k \in Numerals : toString(k) = s
    THEN CHOOSE k \in Numerals : toString(k) = s
    ELSE -1

(***************************************************************************)
(* Configuration: DEFAULT_CONFIG and the overrides the model explores.     *)
(***************************************************************************)
DEFAULT_CONFIG ==
    [ itemClass        |-> "menu__item",
      controllerTags   |-> <<"button", "span">>,
      mobileBreakpoint |-> 768 ]

Configs ==
    << DEFAULT_CONFIG,
       [DEFAULT_CONFIG EXCEPT !.itemClass = "nav__item"],
       [DEFAULT_CONFIG EXCEPT !.controllerTags = << >>] >>

(***************************************************************************)
(* Documents.  Element 0 is the body; elements are numbered in document    *)
(* order, so querySelectorAll answers in increasing order.  cls holds the  *)
(* roles of the class names: "item" is config.itemClass, "link" is         *)
(* config.linkClass = config.buttonClass, "menu" is the literal class      *)
(* menu, "c-menu" the class of config.menuSelector, "mega" the class       *)
(* config.megaMenuClass and "wrapper" the class c-mega-menu__wrapper.      *)
(***************************************************************************)
El(tag, parent, cls) ==
    [ tag |-> tag, parent |-> parent, cls |-> cls, pid |-> Null,
      depth |-> Null, id |-> Null, mobile |-> Null, bp |-> Null,
      tabindex |-> Null, text |-> << >> ]

Nav(parent, bp, mobile) ==
    [El("nav", parent, {"c-menu"}) EXCEPT !.bp = bp, !.mobile = mobile]
Ul(parent) == El("ul", parent, {"menu"})
Li(parent) == El("li", parent, {"item"})
A(parent) == El("a", parent, {"link"})
\* a Controller; text is its text content, one word or white-space
\* character per entry
Ctl(tag, parent, pid, text) ==
    [El(tag, parent, {"link"}) EXCEPT !.pid = pid, !.text = text]

\* the fixture of the test suite (part_003, lines 493-527)
DocFixture ==
    << [El("button", 0, {}) EXCEPT !.id = "nav-trigger"],        \* 1
       Nav(0, "768", "#nav-trigger"),                            \* 2
       Ul(2),                                                    \* 3
       Li(3), A(4),                                              \* 4 5
       Li(3), Ctl("button", 6, "btn1", <<"Menu", " ", "Button">>), \* 6 7
       Ul(6),                                                    \* 8
       Li(8), A(9),                                              \* 9 10
       Li(8), Ctl("button", 11, "btn2", <<"Sub", " ", "Button">>), \* 11 12
       Ul(11),                                                   \* 13
       Li(13), A(14),                                            \* 14 15
       El("li", 3, {"item", "item--expanded"}),                  \* 16
       Ctl("span", 16, "span1", <<"Mega", " ", "Menu">>),        \* 17
       El("div", 16, {"menu"}),                                  \* 18
       El("div", 18, {"wrapper"}),                               \* 19
       A(19),                                                    \* 20
       El("div", 0, {}) >>                                       \* 21

\* a menubar with sibling Controllers below the top level: a button, a
\* span with tabindex="0" and a button without a submenu; the text of the
\* Controllers is indented on lines of its own
DocSiblings ==
    << Nav(0, Null, Null),                                       \* 1
       Ul(1),                                                    \* 2
       Li(2), Ctl("button", 3, "a", <<"\n", " ", "A", "\n">>),   \* 3 4
       Ul(3),                                                    \* 5
       Li(5), Ctl("button", 6, "b", <<"\n", "B", " ", "b", " ">>), \* 6 7
       Ul(6),                                                    \* 8
       Li(8), A(9),                                              \* 9 10
       Li(5),                                                    \* 11
       [Ctl("span", 11, "s", <<" ", "S">>) EXCEPT !.tabindex = "0"], \* 12
       Ul(11),                                                   \* 13
       Li(13), A(14),                                            \* 14 15
       Li(5), Ctl("button", 16, "o", <<"O">>),                   \* 16 17
       El("div", 0, {}) >>                                       \* 18

\* the mega menu of README.md (lines 132-152): a span Controller, a wrapper
\* and a list with an authored data-depth; one Controller without
\* data-plugin-id
DocMega ==
    << Nav(0, Null, Null),                                       \* 1
       Ul(1),                                                    \* 2
       El("li", 2, {"item", "item--expanded"}),                  \* 3
       Ctl("span", 3, "services", <<"Services">>),               \* 4
       El("div", 3, {"wrapper"}),                                \* 5
       [Ul(5) EXCEPT !.depth = "1"],                             \* 6
       Li(6), A(7),                                              \* 7 8
       Li(6), Ctl("button", 9, Null, <<"\n", " ", "More", "\n">>), \* 9 10
       Ul(9),                                                    \* 11
       Li(11), A(12),                                            \* 12 13
       Li(2), A(14),                                             \* 14 15
       El("div", 0, {}) >>                                       \* 16

\* the same menu markup rendered twice, the first with its own breakpoint
DocTwice ==
    << Nav(0, "900", Null),                                      \* 1
       Ul(1),                                                    \* 2
       Li(2), Ctl("button", 3, "m", <<"M">>), Ul(3),             \* 3 4 5
       Li(5), A(6),                                              \* 6 7
       Nav(0, Null, Null),                                       \* 8
       Ul(8),                                                    \* 9
       Li(9), Ctl("button", 10, "m", <<"M">>), Ul(10),           \* 10 11 12
       Li(12), A(13),                                            \* 13 14
       El("div", 0, {}) >>                                       \* 15

\* a menubar whose Controllers carry no data-plugin-id
DocBare ==
    << Nav(0, Null, Null),                                       \* 1
       Ul(1),                                                    \* 2
       Li(2), Ctl("button", 3, Null, <<"One">>), Ul(3),          \* 3 4 5
       Li(5), A(6),                                              \* 6 7
       Li(2), Ctl("button", 8, Null, <<"Two">>), Ul(8),          \* 8 9 10
       Li(10), A(11),                                            \* 11 12
       El("div", 0, {}) >>                                       \* 13

\* three MenuContainers that declare a mobile trigger: two with a trigger
\* of their own, and one without a list whose data-mobile names no element
DocMobiles ==
    << [El("button", 0, {}) EXCEPT !.id = "nav-trigger"],        \* 1
       [El("button", 0, {}) EXCEPT !.id = "footer-trigger"],     \* 2
       Nav(0, Null, "#nav-trigger"),                             \* 3
       Ul(3), Li(4), A(5),                                       \* 4 5 6
       Nav(0, Null, "#footer-trigger"),                          \* 7
       Ul(7), Li(8), A(9),                                       \* 8 9 10
       Nav(0, Null, "#missing"),                                 \* 11
       El("div", 11, {}),                                        \* 12
       El("div", 0, {}) >>                                       \* 13

\* the mega menu of README.md moved one Level up without its authored
\* data-depth values being updated: both lists carry a stale depth
DocStale ==
    << Nav(0, Null, Null),                                       \* 1
       [Ul(1) EXCEPT !.depth = "1"],                             \* 2
       El("li", 2, {"item", "item--expanded"}),                  \* 3
       Ctl("span", 3, "services", <<"Services">>),               \* 4
       El("div", 3, {"wrapper"}),                                \* 5
       [Ul(5) EXCEPT !.depth = "2"],                             \* 6
       Li(6), A(7),                                              \* 7 8
       El("div", 0, {}) >>                                       \* 9

\* a menubar with two top-level Controllers in a MenuContainer whose
\* data-breakpoint (900) differs from the configured mobileBreakpoint; the
\* second submenu begins with a heading of the link class that is neither
\* a link nor a Controller
DocBreakpoint ==
    << Nav(0, "900", Null),                                      \* 1
       Ul(1),                                                    \* 2
       Li(2), Ctl("button", 3, "one", <<"One">>), Ul(3),         \* 3 4 5
       Li(5), A(6),                                              \* 6 7
       Li(2), Ctl("button", 8, "two", <<"Two">>), Ul(8),         \* 8 9 10
       Li(10), El("div", 11, {"link"}),                          \* 11 12
       Li(10), A(13),                                            \* 13 14
       El("div", 0, {}) >>                                       \* 15

\* two MenuContainers that name the same mobile trigger
DocShared ==
    << [El("button", 0, {}) EXCEPT !.id = "nav-trigger"],        \* 1
       Nav(0, Null, "#nav-trigger"),                             \* 2
       Ul(2), Li(3), A(4),                                       \* 3 4 5
       Nav(0, Null, "#nav-trigger"),                             \* 6
       Ul(6), Li(7), A(8),                                       \* 7 8 9
       El("div", 0, {}) >>                                       \* 10

Docs ==
    << DocFixture, DocSiblings, DocMega, DocTwice, DocBare, DocMobiles,
       DocStale, DocBreakpoint, DocShared >>

\* the pairs of a document and a configuration the model starts from
Scenarios ==
    { <<1, 1>>, <<2, 1>>, <<3, 1>>, <<4, 1>>, <<4, 2>>, <<5, 1>>, <<6, 1>>,
      <<7, 1>>, <<8, 1>>, <<9, 1>> }

\* the viewport widths of the model: one below and one above every
\* breakpoint, and one between the breakpoints 768 and 900 where a
\* document has both
Widths(E) ==
    {600, 1000} \cup
    (IF \E i \in 1..Len(E) : E[i].bp = "900" THEN {800} ELSE {})


(***************************************************************************)
(* State.                                                                  *)
(***************************************************************************)
VARIABLES
    doc,            \* the document the page holds (index into Docs)
    dom,            \* the element tree of the document and its relations
    cfg,            \* this.config of the AccessibleMenu (an entry of Configs)
    width,          \* the viewport width window.matchMedia answers for
    attr,           \* attr[n][a]: value of attribute a of element n
    focus,          \* document.activeElement (0 is the body)
    listeners,      \* the registered event listeners, in registration order
    menuInstances,  \* AccessibleMenu.menuInstances: container -> MenuController
    scrollLock,     \* the body carries the class js-prevent-scroll
    raised,         \* the last operation raised an exception
    defaultPrevented, \* a handler of the last event called preventDefault()
    mobileSeen,     \* the viewport was in mobile mode at or after init()
    before,         \* the Controllers that were expanded when the last operation began
    last            \* the operation that led to this state: its name, its
                    \* target, its key ("none" after a focus move or resize)

vars == << doc, dom, cfg, width, attr, focus, listeners, menuInstances,
           scrollLock, raised, defaultPrevented, mobileSeen, before, last >>

D == dom.el
Cfg == cfg
Elements == 1..Len(D)

\* event targets that are not elements
Document == -1
Window == -2

AttrNames ==
    { "aria-expanded", "data-depth", "id", "data-plugin-id",
      "data-menu-controls", "aria-controls", "aria-haspopup", "aria-label",
      "data-menu", "data-breakpoint", "data-mobile", "class-controller",
      "data-once-ariaControls", "data-once-menuControl",
      "data-once-mobileMenuControls" }

(***************************************************************************)
(* The DOM substrate: tree navigation and selector matching.               *)
(***************************************************************************)
Max(S) == CHOOSE x \in S : \A y \in S : y <= x
Min(S) == CHOOSE x \in S : \A y \in S : x <= y

\* the elements of a set in document order
RECURSIVE InOrder(_)
InOrder(S) ==
    IF S = {} THEN << >> ELSE << Min(S) >> \o InOrder(S \ {Min(S)})

\* Array.prototype.indexOf; -1 when absent
indexOf(seq, x) ==
    IF \E i \in 1..Len(seq) : seq[i] = x
    THEN Min({i \in 1..Len(seq) : seq[i] = x}) - 1
    ELSE -1

\* seq[i] of JavaScript (0-based); 0 stands for undefined
at(seq, i) == IF i >= 0 /\ i < Len(seq) THEN seq[i + 1] ELSE 0

Includes(seq, x) == \E i \in 1..Len(seq) : seq[i] = x

parentElement(n) == IF n \in Elements THEN D[n].parent ELSE 0

\* the element n and its ancestors, in the element sequence E
RECURSIVE AncestorsIn(_, _)
AncestorsIn(E, n) ==
    IF n = 0 THEN {} ELSE {n} \cup AncestorsIn(E, E[n].parent)

\* Node.contains: a is n or an ancestor of n
contains(a, n) == n = a \/ (n \in Elements /\ a \in dom.anc[n])

\* the elements below root (root 0 or Document: the whole document)
Descendants(root) ==
    IF root \in Elements THEN dom.desc[root] ELSE Elements

\* Element.closest for the selector that matches the elements of S: the
\* nearest of the element and its ancestors, which is the last of them in
\* document order
closest(n, S) ==
    IF n \notin Elements \/ dom.anc[n] \cap S = {} THEN 0
    ELSE Max(dom.anc[n] \cap S)

querySelectorAll(root, S) == InOrder(Descendants(root) \cap S)

querySelector(root, S) ==
    IF Descendants(root) \cap S = {} THEN 0 ELSE Min(Descendants(root) \cap S)

children(n) == InOrder({m \in Elements : D[m].parent = n})

nextElementSibling(n) == IF n \in Elements THEN dom.next[n] ELSE 0

previousElementSibling(n) == IF n \in Elements THEN dom.prev[n] ELSE 0

\* the class name a role of the markup stands for under configuration c
className(c, role) ==
    CASE role = "item" -> Configs[c].itemClass
      [] role = "item--expanded" -> Configs[c].itemClass \o "--expanded"
      [] role = "link" -> "menu__link"
      [] role = "menu" -> "menu"
      [] role = "c-menu" -> "c-menu"
      [] role = "mega" -> "c-mega-menu"
      [] role = "wrapper" -> "c-mega-menu__wrapper"

\* the class names the source selects by
ClassNames ==
    { "menu__link", "menu", "c-menu", "c-mega-menu", "menu__item" }
    \cup {Configs[c].itemClass : c \in 1..Len(Configs)}
    \cup {Configs[c].itemClass \o "--expanded" : c \in 1..Len(Configs)}

\* the element tree of a document under configuration c, with its
\* relations computed once: anc[n] is n with its ancestors, desc[n] the
\* elements below n, next[n] and prev[n] the adjacent siblings (0: none),
\* byClass[name] the elements that carry a class name
Dom(E, c) ==
    LET N == 1..Len(E)
        sibs(n) == {m \in N : E[m].parent = E[n].parent}
        anc == [n \in N |-> AncestorsIn(E, n)]
    IN  [ el   |-> E,
          anc  |-> anc,
          desc |-> [r \in N |-> {n \in N : n # r /\ r \in anc[n]}],
          next |-> [n \in N |->
                      IF \E m \in sibs(n) : m > n
                      THEN CHOOSE m \in sibs(n) :
                              m > n /\ \A k \in sibs(n) : k > n => m <= k
                      ELSE 0],
          prev |-> [n \in N |->
                      IF \E m \in sibs(n) : m < n
                      THEN CHOOSE m \in sibs(n) :
                              m < n /\ \A k \in sibs(n) : k < n => k <= m
                      ELSE 0],
          byClass |-> [name \in ClassNames |->
                          {n \in N : \E r \in E[n].cls : className(c, r) = name}] ]

hasClass(n, name) == n \in dom.byClass[name]

\* selectors of the source, as the sets of elements they match
SelMenuSelector == dom.byClass["c-menu"]
SelItem == dom.byClass[Cfg.itemClass]
SelLink == dom.byClass["menu__link"]
SelUl == {n \in Elements : D[n].tag = "ul"}
SelMenuOrUl == dom.byClass["menu"] \cup SelUl
SelMegaMenu == dom.byClass["c-mega-menu"]

\* tag.buttonClass for every tag of config.controllerTags
SelControllers ==
    {n \in SelLink : Includes(Cfg.controllerTags, D[n].tag)}

\* ul[data-depth]
SelUlDepth(a) == {n \in SelUl : a[n]["data-depth"] # Null}

\* document.getElementById: the first element in document order
getElementById(a, id) ==
    IF \E n \in Elements : a[n]["id"] = id
    THEN Min({n \in Elements : a[n]["id"] = id})
    ELSE 0

\* the identifiers the data-mobile values of the markup name
Identifiers == {"nav-trigger", "footer-trigger", "missing"}

\* String.prototype.replace('#', '') on the data-mobile values of the markup
stripHash(s) ==
    IF \E i \in Identifiers : s = "#" \o i
    THEN CHOOSE i \in Identifiers : s = "#" \o i
    ELSE s

\* window.matchMedia(`(max-width: ${bp}px)`).matches
matches(bp, w) == bp >= 0 /\ w <= bp

(***************************************************************************)
(* The elements the claims speak about.                                    *)
(***************************************************************************)
Containers == SelMenuSelector

\* the MenuContainer an element lies in (0: none)
ContainerOf(n) == closest(n, SelMenuSelector)

\* the Controllers of the markup: button and span elements of the link class
Controllers ==
    {n \in Elements : D[n].tag \in {"button", "span"} /\ "link" \in D[n].cls}

\* the Level (list) an element is an item of
LevelOf(n) == closest(n, SelUl)

\* the submenu element an element lies in: the nearest element above it
\* that directly follows a Controller (0: none, the element is top-level)
PopupOf(n) ==
    closest(parentElement(n),
            {m \in Elements : previousElementSibling(m) \in Controllers})

\* the Controller that owns the submenu an element lies in (0: top level)
OwnerOf(n) == IF PopupOf(n) = 0 THEN 0 ELSE previousElementSibling(PopupOf(n))

\* nesting depth of an element by structure: the number of Controllers above
RECURSIVE StructDepth(_)
StructDepth(n) == IF OwnerOf(n) = 0 THEN 0 ELSE 1 + StructDepth(OwnerOf(n))


(***************************************************************************)
(* AccessibleMenu.init: Tree Annotator, Control Binder, Navigation Engine  *)
(* and Mobile Collapse Controller setup.                                   *)
(***************************************************************************)
set(a, n, name, value) == [a EXCEPT ![n][name] = value]

\* once() that returns every element of the selector, marked or not
onceUnguarded(a, id, S) ==
    InOrder(S)

\* once(id, selector, context = document): the elements of the selector
\* that do not carry data-once-<id> yet
once(a, id, S) ==
    InOrder({n \in S : a[n]["data-once-" \o id] = Null})

\* the marks once() leaves on the elements it returns
RECURSIVE onceMark(_, _, _)
onceMark(a, id, seq) ==
    IF seq = << >> THEN a
    ELSE onceMark(set(a, Head(seq), "data-once-" \o id, "true"), id, Tail(seq))

\* ':scope > .menu__item > .menu, :scope > .menu__item > ul'
Submenus(menuElement) ==
    InOrder({m \in SelMenuOrUl :
                /\ parentElement(m) \in Elements
                /\ hasClass(parentElement(m), "menu__item")
                /\ parentElement(parentElement(m)) = menuElement})

RECURSIVE setDepthRecursively(_, _, _), setDepthEach(_, _, _)
setDepthRecursively(a, menuElement, depth) ==
    setDepthEach(set(a, menuElement, "data-depth", toString(depth)),
                 Submenus(menuElement), depth + 1)
setDepthEach(a, submenus, depth) ==
    IF submenus = << >> THEN a
    ELSE setDepthEach(setDepthRecursively(a, Head(submenus), depth),
                      Tail(submenus), depth)

\* ':scope > .menu, :scope > ul' of the container
TopLevelMenu(menuContainer) ==
    querySelector(menuContainer,
                  {m \in SelMenuOrUl : parentElement(m) = menuContainer})

setMenuDepthAttributes(a, menuContainer) ==
    IF TopLevelMenu(menuContainer) # 0
    THEN setDepthRecursively(a, TopLevelMenu(menuContainer), 0)
    ELSE a

isController(element) == Includes(Cfg.controllerTags, D[element].tag)

\* the white-space characters of the markup
WhiteSpace == {" ", "\n"}

\* String.prototype.trim on a text held one word or white-space character
\* per entry
RECURSIVE trimStart(_), trimEnd(_)
trimStart(t) ==
    IF t # << >> /\ Head(t) \in WhiteSpace THEN trimStart(Tail(t)) ELSE t
trimEnd(t) ==
    IF t # << >> /\ t[Len(t)] \in WhiteSpace
    THEN trimEnd(SubSeq(t, 1, Len(t) - 1)) ELSE t
\* a trim that leaves the trailing white space
trimLeadingOnly(t) == trimStart(t)

trim(t) == trimEnd(trimStart(t))

\* the string a text spells
RECURSIVE Join(_)
Join(t) == IF t = << >> THEN "" ELSE Head(t) \o Join(Tail(t))

\* Node.textContent of a Controller
textContent(element) == D[element].text

\* one element of attachControlsToElements; rnd[element] is the value
\* of Math.floor(Math.random() * 10000)
attachControlsToElement(a, element, rnd) ==
    LET old == a[element]["data-plugin-id"]
        id == IF old = Null THEN "menu-" \o toString(rnd[element]) ELSE old
        a1 == IF old = Null THEN set(a, element, "data-plugin-id", id) ELSE a
        submenu == nextElementSibling(element)
        submenuId == "panel-" \o id
    IN  IF isController(element)
        THEN LET a2 == set(a1, element, "aria-haspopup", "true")
             IN  IF submenu # 0
                 THEN [a2 EXCEPT ![submenu]["id"] = submenuId,
                                 ![element]["aria-controls"] = submenuId,
                                 ![element]["data-menu-controls"] = submenuId,
                                 ![element]["aria-label"] =
                                     Join(trim(textContent(element)))]
                 ELSE a2
        ELSE IF submenu # 0
        THEN LET a3 == [a1 EXCEPT ![submenu]["id"] = submenuId,
                                  ![element]["data-menu-controls"] = submenuId]
                 nestedMenu ==
                     querySelector(submenu, {m \in Elements : hasClass(m, "menu")})
             IN  IF nestedMenu # 0
                 THEN set(a3, nestedMenu, "data-menu-controls", submenuId)
                 ELSE a3
        ELSE a1

RECURSIVE attachControlsToElements(_, _, _)
attachControlsToElements(a, elements, rnd) ==
    IF elements = << >> THEN a
    ELSE attachControlsToElements(
             attachControlsToElement(a, Head(elements), rnd),
             Tail(elements), rnd)

\* the selector list controllerTags.map(...).join(', ') is the empty
\* string when there is no tag, and querySelectorAll('') raises a SyntaxError
emptySelector == Cfg.controllerTags = << >>

\* menu.querySelectorAll(controllerSelectors) and attachControlsToElements
\* in the forEach of attachAriaControls: s is [attr, listeners,
\* menuInstances, err]
attachControlsOfMenu(s, menu, rnd) ==
    IF emptySelector THEN [s EXCEPT !.err = TRUE]
    ELSE [s EXCEPT !.attr = attachControlsToElements(
                                @, querySelectorAll(menu, SelControllers), rnd)]

\* the body of the forEach of attachAriaControls, over the menus once()
\* gave; an exception ends the forEach
RECURSIVE attachAriaControlsEach(_, _, _)
attachAriaControlsEach(s, menus, rnd) ==
    IF menus = << >> \/ s.err THEN s
    ELSE attachAriaControlsEach(
             attachControlsOfMenu(
                 [s EXCEPT !.attr = setMenuDepthAttributes(@, Head(menus))],
                 Head(menus), rnd),
             Tail(menus), rnd)

attachAriaControls(s, rnd) ==
    attachAriaControlsEach(
        [s EXCEPT !.attr = onceMark(@, "ariaControls",
                               once(s.attr, "ariaControls", SelMenuSelector))],
        once(s.attr, "ariaControls", SelMenuSelector), rnd)


(***************************************************************************)
(* Listeners.  A listener is the bound method of an object; self holds the *)
(* fields of the object that the method reads.                             *)
(***************************************************************************)
Listener(target, type, handler, self) ==
    [ target |-> target, type |-> type, handler |-> handler, self |-> self ]

\* method.bind(this) makes a new function object on every evaluation, so
\* the function removeEventListener is handed is never a registered one
\* and the call leaves the listeners as they are
removeEventListener(ls, target, type, handler, self, registered) ==
    IF registered
    THEN SelectSeq(ls, LAMBDA l : l # Listener(target, type, handler, self))
    ELSE ls

\* a MenuLinks object has no mobileMediaQuery
NoMediaQuery == -2

\* the fields of a MenuLinks / MenuButton / MobileMenuController object;
\* mq is the breakpoint of this.mobileMediaQuery
Object(domNode, menuNode, menuitemNodes, mq) ==
    [ domNode |-> domNode, menuNode |-> menuNode,
      menuitemNodes |-> menuitemNodes, mq |-> mq ]

\* Array.prototype.filter(item => item !== x)
RECURSIVE without(_, _)
without(seq, x) ==
    IF seq = << >> THEN << >>
    ELSE IF Head(seq) = x THEN without(Tail(seq), x)
    ELSE << Head(seq) >> \o without(Tail(seq), x)

\* this.menuitemNodes at the end of the MenuLinks constructor
MenuLinksItems(domNode) ==
    LET parentMenu == closest(domNode, SelUl)
        own == IF parentMenu # 0 THEN querySelectorAll(parentMenu, SelLink)
               ELSE querySelectorAll(domNode, SelLink)
        megaMenuWrapper == closest(domNode, SelMegaMenu)
        all == IF megaMenuWrapper # 0
               THEN own \o querySelectorAll(megaMenuWrapper, SelLink)
               ELSE own
    IN  IF isController(domNode) THEN without(all, domNode) ELSE all

\* new MenuLinks(domNode, config), for a link that is no controller: s is
\* [attr, listeners]
MenuLinksConstructor(s, domNode) ==
    IF isController(domNode) THEN s
    ELSE [s EXCEPT !.listeners =
             Append(@, Listener(domNode, "keydown", "onMenuitemKeydown",
                        Object(domNode, 0, MenuLinksItems(domNode), NoMediaQuery)))]

\* the MenuButton constructor without the reset of aria-expanded
MenuButtonConstructorKeepsExpanded(s, buttonNode, mq) ==
    LET controlsId == s.attr[buttonNode]["data-menu-controls"]
        menuNode == IF controlsId # Null
                    THEN getElementById(s.attr, controlsId) ELSE 0
        items == IF menuNode # 0 THEN querySelectorAll(menuNode, SelLink)
                 ELSE MenuLinksItems(buttonNode)
        self == Object(buttonNode, menuNode, items, mq)
        a1 == [s.attr EXCEPT ![buttonNode]["class-controller"] = "true"]
        bound == a1[buttonNode]["data-menu"] # Null
        l1 == IF bound THEN s.listeners
              ELSE s.listeners
                   \o << Listener(buttonNode, "keydown", "onButtonKeydown", self),
                         Listener(buttonNode, "click", "onButtonClick", self) >>
        a2 == IF bound THEN a1 ELSE set(a1, buttonNode, "data-menu", "true")
    IN  [ attr |-> a2,
          listeners |-> Append(l1, Listener(Document, "mousedown",
                                            "onBackgroundMousedown", self)) ]

\* new MenuButton(buttonNode, config, mobileMediaQuery)
MenuButtonConstructor(s, buttonNode, mq) ==
    LET controlsId == s.attr[buttonNode]["data-menu-controls"]
        menuNode == IF controlsId # Null
                    THEN getElementById(s.attr, controlsId) ELSE 0
        items == IF menuNode # 0 THEN querySelectorAll(menuNode, SelLink)
                 ELSE MenuLinksItems(buttonNode)
        self == Object(buttonNode, menuNode, items, mq)
        a1 == [s.attr EXCEPT ![buttonNode]["aria-expanded"] = "false",
                             ![buttonNode]["class-controller"] = "true"]
        bound == a1[buttonNode]["data-menu"] # Null
        l1 == IF bound THEN s.listeners
              ELSE s.listeners
                   \o << Listener(buttonNode, "keydown", "onButtonKeydown", self),
                         Listener(buttonNode, "click", "onButtonClick", self) >>
        a2 == IF bound THEN a1 ELSE set(a1, buttonNode, "data-menu", "true")
    IN  [ attr |-> a2,
          listeners |-> Append(l1, Listener(Document, "mousedown",
                                            "onBackgroundMousedown", self)) ]

\* MenuController.getMobileBreakpoint
getMobileBreakpoint(a, menuContainer) ==
    IF a[menuContainer]["data-breakpoint"] # Null
    THEN parseInt(a[menuContainer]["data-breakpoint"])
    ELSE Cfg.mobileBreakpoint

RECURSIVE MenuButtonEach(_, _, _)
MenuButtonEach(s, controllers, mq) ==
    IF controllers = << >> THEN s
    ELSE MenuButtonEach(MenuButtonConstructor(s, Head(controllers), mq),
                        Tail(controllers), mq)

\* `.item:not(.item--expanded:has(> span.link))`
SelPlainItems ==
    {n \in SelItem :
        ~ ( /\ hasClass(n, Cfg.itemClass \o "--expanded")
            /\ \E m \in SelLink : D[m].parent = n /\ D[m].tag = "span" )}

RECURSIVE MenuLinksEach(_, _)
MenuLinksEach(s, items) ==
    IF items = << >> THEN s
    ELSE LET link == querySelector(Head(items), SelLink)
         IN  MenuLinksEach(
                 IF link # 0 /\ ~ isController(link)
                 THEN MenuLinksConstructor(s, link) ELSE s,
                 Tail(items))

\* MenuController.initializeMenus: s is [attr, listeners]
initializeMenus(s, menuContainer, mq) ==
    MenuLinksEach(
        MenuButtonEach(s, querySelectorAll(menuContainer, SelControllers), mq),
        querySelectorAll(menuContainer, SelPlainItems))

\* this.menuInstances.set(menuContainer, menuInstance)
menuInstancesSet(mi, menuContainer, mobileBreakpoint) ==
    [c \in DOMAIN mi \cup {menuContainer} |->
        IF c = menuContainer
        THEN [ menuContainer |-> menuContainer,
               mobileBreakpoint |-> mobileBreakpoint ]
        ELSE mi[c]]

\* new MenuController(menuContainer, config) and menuInstances.set: s is
\* [attr, listeners, menuInstances, err]; the selector list of
\* initializeMenus raises before anything is bound or set
MenuControllerConstructor(s, menuContainer) ==
    IF emptySelector THEN [s EXCEPT !.err = TRUE]
    ELSE LET mobileBreakpoint == getMobileBreakpoint(s.attr, menuContainer)
             t == initializeMenus([attr |-> s.attr, listeners |-> s.listeners],
                                  menuContainer, mobileBreakpoint)
         IN  [ attr |-> t.attr, listeners |-> t.listeners,
               menuInstances |-> menuInstancesSet(s.menuInstances, menuContainer,
                                                  mobileBreakpoint),
               err |-> FALSE ]

RECURSIVE attachMenuControlsEach(_, _)
attachMenuControlsEach(s, menus) ==
    IF menus = << >> \/ s.err THEN s
    ELSE attachMenuControlsEach(MenuControllerConstructor(s, Head(menus)),
                                Tail(menus))

\* a step of init() does not run after an exception of an earlier one
attachMenuControls(s) ==
    IF s.err THEN s
    ELSE attachMenuControlsEach(
        [s EXCEPT !.attr = onceMark(@, "menuControl",
                               once(s.attr, "menuControl", SelMenuSelector))],
        once(s.attr, "menuControl", SelMenuSelector))

\* a MobileMenuController whose init goes on without a trigger: the
\* optional call on the trigger is skipped, the window listener is bound
MobileMenuControllerConstructorUnguarded(s, menuContainer) ==
    LET mobileNavButton ==
            getElementById(s.attr, stripHash(s.attr[menuContainer]["data-mobile"]))
        self == Object(menuContainer, mobileNavButton, << >>,
                       getMobileBreakpoint(s.attr, menuContainer))
    IN  [s EXCEPT !.listeners =
            @ \o (IF mobileNavButton = 0 THEN << >>
                  ELSE << Listener(mobileNavButton, "click", "mobileControl",
                                   self) >>)
              \o << Listener(Window, "keydown", "handleEscape", self) >>]

\* new MobileMenuController(menuContainer, config): init and setupEventListeners
MobileMenuControllerConstructor(s, menuContainer) ==
    LET mobileNavButton ==
            getElementById(s.attr, stripHash(s.attr[menuContainer]["data-mobile"]))
        self == Object(menuContainer, mobileNavButton, << >>,
                       getMobileBreakpoint(s.attr, menuContainer))
    IN  IF mobileNavButton = 0 THEN s
        ELSE [s EXCEPT !.listeners =
                 @ \o << Listener(mobileNavButton, "click", "mobileControl", self),
                         Listener(Window, "keydown", "handleEscape", self) >>]

RECURSIVE attachMobileControlsEach(_, _)
attachMobileControlsEach(s, menus) ==
    IF menus = << >> THEN s
    ELSE attachMobileControlsEach(
             MobileMenuControllerConstructor(s, Head(menus)), Tail(menus))

\* `${menuSelector}[data-mobile]`
SelMobileMenus(a) == {n \in SelMenuSelector : a[n]["data-mobile"] # Null}

attachMobileControls(s) ==
    IF s.err THEN s
    ELSE attachMobileControlsEach(
        [s EXCEPT !.attr = onceMark(@, "mobileMenuControls",
                      once(s.attr, "mobileMenuControls", SelMobileMenus(s.attr)))],
        once(s.attr, "mobileMenuControls", SelMobileMenus(s.attr)))

\* AccessibleMenu.init(document): s is [attr, listeners, menuInstances,
\* err]; an exception ends the call
init(s, rnd) ==
    attachMobileControls(attachMenuControls(attachAriaControls(s, rnd)))


(***************************************************************************)
(* Handlers.  A handler maps the state st it finds to the state it leaves: *)
(* st.attr, st.focus, st.listeners, st.scrollLock (the body carries        *)
(* js-prevent-scroll), st.err (a handler of this event raised),            *)
(* st.stopped (event.stopPropagation() was called) and st.prevented        *)
(* (event.preventDefault() was called).                                    *)
(***************************************************************************)
\* aria-expanded = "false" on every element of S
collapse(st, S) ==
    [st EXCEPT !.attr = [n \in Elements |->
        IF n \in S THEN [st.attr[n] EXCEPT !["aria-expanded"] = "false"]
        ELSE st.attr[n]]]

Event(type, target, key) == [ type |-> type, target |-> target, key |-> key ]

\* MenuButton.isOpen
isOpen(st, self) == st.attr[self.domNode]["aria-expanded"] = "true"

\* this.mobileMediaQuery.matches
mqMatches(self) == self.mq # NoMediaQuery /\ matches(self.mq, width)

\* tag.buttonClass[aria-expanded="true"] for every tag of controllerTags
SelExpandedControllers(a) ==
    {n \in SelControllers : a[n]["aria-expanded"] = "true"}

\* button.buttonClass[aria-expanded="true"]
SelExpandedButtons(a) ==
    {n \in SelLink : D[n].tag = "button" /\ a[n]["aria-expanded"] = "true"}

\* MenuButton.closePopup
closePopup(st, self) == collapse(st, {self.domNode})

\* the nested branch of closeAll: sibling buttons of parentMenu, then the
\* buttons below a list of another depth when this.menuNode is null
closeAllNested(st, self, menuContainer, parentMenu, currentDepth) ==
    LET siblingButtons ==
            {b \in SelExpandedButtons(st.attr) :
                /\ parentElement(b) \in SelItem
                /\ parentElement(parentElement(b)) = parentMenu}
        st1 == collapse(st, siblingButtons \ {self.domNode})
        allDeeperButtons ==
            {b \in Descendants(menuContainer) \cap SelExpandedButtons(st1.attr) :
                \E u \in SelUlDepth(st1.attr) :
                    /\ u # b /\ contains(u, b)
                    /\ st1.attr[u]["data-depth"] # toString(currentDepth)}
    IN  IF self.menuNode = 0 THEN collapse(st1, allDeeperButtons) ELSE st1

\* closeAll whose top-level branch selects button elements only, as its
\* nested branch does
closeAllButtonTagOnly(st, self) ==
    LET menuContainer == closest(self.domNode, SelMenuSelector)
        parentMenu == closest(self.domNode, SelUlDepth(st.attr))
        currentDepth == IF parentMenu # 0
                        THEN parseInt(st.attr[parentMenu]["data-depth"]) ELSE 0
        topLevelMenu ==
            querySelector(menuContainer,
                          {u \in SelUl : st.attr[u]["data-depth"] = "0"})
    IN  IF currentDepth = 0
        THEN IF topLevelMenu = 0 THEN st
             ELSE collapse(st, (Descendants(topLevelMenu)
                                \cap SelExpandedButtons(st.attr))
                               \ {self.domNode})
        ELSE closeAllNested(st, self, menuContainer, parentMenu, currentDepth)

\* MenuButton.closeAll
closeAll(st, self) ==
    LET menuContainer == closest(self.domNode, SelMenuSelector)
        parentMenu == closest(self.domNode, SelUlDepth(st.attr))
        currentDepth == IF parentMenu # 0
                        THEN parseInt(st.attr[parentMenu]["data-depth"]) ELSE 0
        topLevelMenu ==
            querySelector(menuContainer,
                          {u \in SelUl : st.attr[u]["data-depth"] = "0"})
    IN  IF currentDepth = 0
        THEN IF topLevelMenu = 0 THEN st
             ELSE collapse(st, (Descendants(topLevelMenu)
                                \cap SelExpandedControllers(st.attr))
                               \ {self.domNode})
        ELSE closeAllNested(st, self, menuContainer, parentMenu, currentDepth)

\* MenuButton.openPopup
openPopup(st, self) ==
    LET st1 == IF ~ mqMatches(self) THEN closeAll(st, self) ELSE st
    IN  [st1 EXCEPT !.attr[self.domNode]["aria-expanded"] = "true"]

\* MenuButton.onButtonClick
onButtonClick(st, self, event) ==
    LET st1 == IF isOpen(st, self) THEN closePopup(st, self)
               ELSE IF ~ mqMatches(self)
                    THEN closeAll(openPopup(st, self), self)
                    ELSE openPopup(st, self)
    IN  [st1 EXCEPT !.stopped = TRUE, !.prevented = TRUE]

\* an element that element.focus() can move the focus to; every a element
\* of the markup has an href
isFocusable(n) ==
    n \in Elements /\ (D[n].tag \in {"a", "button"} \/ D[n].tabindex # Null)

\* element.focus()
focusOn(st, n) == IF isFocusable(n) THEN [st EXCEPT !.focus = n] ELSE st

\* MenuButton.onBackgroundMousedown
onBackgroundMousedown(st, self, event) ==
    LET menuContainer == closest(self.domNode, SelMenuSelector)
    IN  IF /\ ~ contains(menuContainer, event.target)
           /\ isOpen(st, self)
           /\ ~ mqMatches(self)
        THEN closePopup(focusOn(st, self.domNode), self)
        ELSE st

\* MobileMenuController.closeMobile
closeMobile(st, self, key) ==
    LET st1 == [st EXCEPT !.scrollLock = FALSE,
                          !.attr[self.menuNode]["aria-expanded"] = "false"]
        st2 == IF key \in {"Esc", "Escape"}
               THEN focusOn(st1, self.menuNode)
               ELSE st1
    IN  [st2 EXCEPT !.listeners = removeEventListener(@, Window, "click",
                                      "onWindowClick", self, FALSE)]

\* MobileMenuController.mobileControl
mobileControl(st, self, event) ==
    IF st.attr[self.menuNode]["aria-expanded"] = "false"
    THEN [st EXCEPT !.scrollLock = TRUE,
                    !.attr[self.menuNode]["aria-expanded"] = "true",
                    !.stopped = TRUE,
                    !.listeners = Append(@, Listener(Window, "click",
                                                "onWindowClick", self))]
    ELSE closeMobile(st, self, "")

\* MobileMenuController.handleEscape
handleEscape(st, self, event) ==
    IF /\ self.menuNode # 0
       /\ st.attr[self.menuNode]["aria-expanded"] = "true"
       /\ event.key \in {"Esc", "Escape"}
    THEN closeMobile(st, self, "Esc")
    ELSE st

\* MobileMenuController.onWindowClick
onWindowClick(st, self, event) ==
    IF mqMatches(self) /\ ~ contains(self.domNode, event.target)
    THEN closeMobile(st, self, "")
    ELSE st

\* the listeners registered for an event type on one target of the path
ListenersAt(st, target, type) ==
    SelectSeq(st.listeners, LAMBDA l : l.target = target /\ l.type = type)

\* the propagation path of an event: the target, its ancestors, the
\* document and the window
RECURSIVE Path(_)
Path(n) ==
    IF n \in Elements THEN << n >> \o Path(D[n].parent)
    ELSE << Document, Window >>

\* a click handler
runClick(st, l, event) ==
    CASE l.handler = "onButtonClick" -> onButtonClick(st, l.self, event)
      [] l.handler = "mobileControl" -> mobileControl(st, l.self, event)
      [] l.handler = "onWindowClick" -> onWindowClick(st, l.self, event)
      [] OTHER -> st

RECURSIVE runClickEach(_, _, _)
runClickEach(st, ls, event) ==
    IF ls = << >> THEN st
    ELSE runClickEach(runClick(st, Head(ls), event), Tail(ls), event)

RECURSIVE dispatchClickPath(_, _, _)
dispatchClickPath(st, path, event) ==
    IF path = << >> \/ st.stopped THEN st
    ELSE dispatchClickPath(
             runClickEach(st, ListenersAt(st, Head(path), "click"), event),
             Tail(path), event)

\* element.click() and the user's click: a click event dispatched on target
dispatchClick(st, target) ==
    [dispatchClickPath([st EXCEPT !.stopped = FALSE, !.prevented = FALSE],
                       Path(target), Event("click", target, ""))
        EXCEPT !.stopped = st.stopped, !.prevented = st.prevented]


(***************************************************************************)
(* Keyboard handlers of MenuLinks.                                         *)
(***************************************************************************)
\* an uncaught TypeError: the rest of the handler does not run
Throw(st) == [st EXCEPT !.err = TRUE]


\* MenuLinks.isLastItem, getNextItem, getPreviousItem (0: undefined)
isLastItem(menuItems, targetIndex) == targetIndex = Len(menuItems) - 1
getNextItem(menuItems, targetIndex) ==
    IF isLastItem(menuItems, targetIndex) THEN at(menuItems, 0)
    ELSE at(menuItems, targetIndex + 1)
getPreviousItem(menuItems, targetIndex) ==
    IF targetIndex = 0 THEN at(menuItems, Len(menuItems) - 1)
    ELSE at(menuItems, targetIndex - 1)

\* Element.checkVisibility under the style sheet of the package: the
\* element following a collapsed Controller is not rendered
checkVisibility(a, n) ==
    \A c \in Controllers :
        ( /\ nextElementSibling(c) # 0
          /\ contains(nextElementSibling(c), n) )
        => a[c]["aria-expanded"] = "true"

\* MenuLinks.getFocusableElements; every a element of the markup has an href
getFocusableElements(a, menu) ==
    IF menu = 0 THEN << >>
    ELSE InOrder({n \in Descendants(menu) \cap SelLink :
                     /\ D[n].tag = "a" \/ isController(n)
                     /\ checkVisibility(a, n)})

\* MenuLinks.handleUpArrow
handleUpArrow(st, self, target) ==
    LET currentIndex == indexOf(self.menuitemNodes, target)
        prevItem == getPreviousItem(self.menuitemNodes, currentIndex)
    IN  IF prevItem # 0 THEN focusOn(st, prevItem) ELSE st

\* MenuLinks.handleDownArrow
handleDownArrow(st, self, target) ==
    LET parentMenu == closest(target, SelUlDepth(st.attr))
        listDepth == IF parentMenu # 0
                     THEN parseInt(st.attr[parentMenu]["data-depth"]) ELSE 0
        megaMenu == closest(target, SelMegaMenu)
        menuDepth == IF megaMenu # 0 /\ st.attr[megaMenu]["data-depth"] # Null
                     THEN parseInt(st.attr[megaMenu]["data-depth"])
                     ELSE listDepth
        rootMenu == closest(target,
                        {m \in SelMenuOrUl :
                            previousElementSibling(m)
                                \in SelExpandedControllers(st.attr)})
        focusableElements == getFocusableElements(st.attr, rootMenu)
        index == indexOf(focusableElements, target)
    IN  IF menuDepth = 0 /\ D[target].tag = "a" THEN st
        ELSE IF Len(focusableElements) > 0 /\ index >= 0
        THEN focusOn(st, IF index + 1 < Len(focusableElements)
                         THEN at(focusableElements, index + 1)
                         ELSE at(focusableElements, 0))
        ELSE st

\* MenuLinks.closeAllButtons
closeAllButtons(st, self, menuContainer) ==
    IF menuContainer = 0 THEN st
    ELSE IF matches(Cfg.mobileBreakpoint, width) THEN st
    ELSE collapse(st,
             {c \in Descendants(menuContainer) :
                 /\ isController(c)
                 /\ st.attr[c]["aria-expanded"] = "true"} \ {self.domNode})

\* MenuLinks.getTopLevelMenuItems (called with a topMenu that is not null)
getTopLevelMenuItems(a, topMenu) ==
    InOrder({item \in Descendants(topMenu) \cap SelItem :
                LET parentUl == closest(item, SelUlDepth(a))
                IN  parentUl # 0 /\ a[parentUl]["data-depth"] = "0"})

\* MenuLinks.navigateToTopLevelItem
navigateToTopLevelItem(st, self, currentItem, direction, menuContainer) ==
    LET byDepth == querySelector(menuContainer,
                       {n \in Elements : st.attr[n]["data-depth"] = "0"})
        topMenu == IF byDepth # 0 THEN byDepth
                   ELSE querySelector(menuContainer, SelUl)
        topLevelItems == getTopLevelMenuItems(st.attr, topMenu)
        currentIndex == indexOf(topLevelItems, currentItem)
        targetIndex ==
            IF direction = "next"
            THEN IF currentIndex + 1 < Len(topLevelItems)
                 THEN currentIndex + 1 ELSE 0
            ELSE IF currentIndex - 1 >= 0
                 THEN currentIndex - 1 ELSE Len(topLevelItems) - 1
        targetMenuItem == at(topLevelItems, targetIndex)
        targetMenuLink == querySelector(targetMenuItem, SelLink)
        st1 == closeAllButtons(st, self, menuContainer)
        st2 == focusOn(st1, targetMenuLink)
    IN  IF topMenu = 0 \/ targetMenuItem = 0 THEN Throw(st)
        ELSE IF targetMenuLink = 0 THEN Throw(st1)
        ELSE IF /\ isController(targetMenuLink)
                /\ st2.attr[targetMenuLink]["aria-expanded"] = "false"
        THEN dispatchClick(st2, targetMenuLink)
        ELSE st2

\* MenuLinks.handleNonNestedMenu
handleNonNestedMenu(st, self, direction) ==
    LET parentMenu == closest(self.domNode, SelUl)
        menuItems == children(parentMenu)
        currentMenuItem == closest(self.domNode, SelItem)
        targetIndex == indexOf(menuItems, currentMenuItem)
        siblingToFocus ==
            IF direction = "right" THEN getNextItem(menuItems, targetIndex)
            ELSE getPreviousItem(menuItems, targetIndex)
        st1 == IF st.attr[parentMenu]["data-depth"] = "0"
               THEN closeAllButtons(st, self,
                                    closest(self.domNode, SelMenuSelector))
               ELSE st
        linkToFocus == querySelector(siblingToFocus, SelLink)
    IN  IF parentMenu = 0 THEN Throw(st)
        ELSE IF siblingToFocus = 0 \/ linkToFocus = 0 THEN Throw(st1)
        ELSE focusOn(st1, linkToFocus)

\* MenuLinks.findMenuController
findMenuController(a, menuNode, menuContainer) ==
    IF a[menuNode]["id"] = Null THEN 0
    ELSE querySelector(menuContainer,
             {n \in Elements : a[n]["data-menu-controls"] = a[menuNode]["id"]})

\* MenuLinks.handleNestedMenuLeft
handleNestedMenuLeft(st, self) ==
    LET menuContainer == closest(self.domNode, SelMenuSelector)
        parentMenu == closest(self.domNode, SelUl)
        menuController == findMenuController(st.attr, parentMenu, menuContainer)
        parentMenuItem == closest(menuController, SelItem)
        parentUl == closest(parentMenuItem, SelUlDepth(st.attr))
    IN  IF menuContainer = 0 THEN Throw(st)
        ELSE IF /\ menuController # 0
                /\ parentUl # 0
                /\ st.attr[parentUl]["data-depth"] = "0"
        THEN navigateToTopLevelItem(st, self, parentMenuItem, "previous",
                                    menuContainer)
        ELSE st

\* MenuLinks.findControllerItem: the loop, from currentElement on
RECURSIVE findControllerItemFrom(_, _)
findControllerItemFrom(a, currentElement) ==
    LET parentUl == closest(currentElement,
                        {u \in SelUl : a[u]["data-depth"] = "0"})
        menuItem == closest(currentElement, SelItem)
        up == closest(parentElement(menuItem), SelItem)
    IN  IF currentElement = 0 THEN 0
        ELSE IF parentUl # 0 /\ menuItem # 0
                /\ parentElement(menuItem) = parentUl
        THEN menuItem
        ELSE findControllerItemFrom(a, up)

findControllerItem(a, self) == findControllerItemFrom(a, self.domNode)

\* MenuLinks.findControllerItem: the element the loop goes on with
\* (0: the loop ends, with or without a result)
findControllerItemNext(a, currentElement) ==
    LET parentUl == closest(currentElement,
                        {u \in SelUl : a[u]["data-depth"] = "0"})
        menuItem == closest(currentElement, SelItem)
    IN  IF currentElement = 0 THEN 0
        ELSE IF parentUl # 0 /\ menuItem # 0
                /\ parentElement(menuItem) = parentUl
        THEN 0
        ELSE closest(parentElement(menuItem), SelItem)

\* MenuLinks.handleNestedMenuRight
handleNestedMenuRight(st, self) ==
    LET menuContainer == closest(self.domNode, SelMenuSelector)
        controllerItem == findControllerItem(st.attr, self)
    IN  IF controllerItem # 0
        THEN navigateToTopLevelItem(st, self, controllerItem, "next",
                                    menuContainer)
        ELSE st

\* the test of handleLeftArrow and handleRightArrow:
\* parentMenu && parentMenu.dataset.depth && parentMenu.dataset.depth > 0
isNestedMenu(a, parentMenu) ==
    /\ parentMenu # 0
    /\ a[parentMenu]["data-depth"] # Null
    /\ parseInt(a[parentMenu]["data-depth"]) > 0

\* MenuLinks.handleLeftArrow
handleLeftArrow(st, self) ==
    IF isNestedMenu(st.attr, closest(self.domNode, SelUl))
    THEN handleNestedMenuLeft(st, self)
    ELSE handleNonNestedMenu(st, self, "left")

\* MenuLinks.handleRightArrow
handleRightArrow(st, self) ==
    IF isNestedMenu(st.attr, closest(self.domNode, SelUl))
    THEN handleNestedMenuRight(st, self)
    ELSE handleNonNestedMenu(st, self, "right")

\* MenuLinks.handleEscape
linksHandleEscape(st, self) ==
    LET menuNode == closest(self.domNode, SelUl)
        controllingButton ==
            IF menuNode = 0 \/ st.attr[menuNode]["id"] = Null THEN 0
            ELSE querySelector(Document,
                     {n \in Elements :
                         st.attr[n]["data-menu-controls"] = st.attr[menuNode]["id"]})
    IN  IF controllingButton # 0
        THEN focusOn(collapse(st, {controllingButton}), controllingButton)
        ELSE st

\* event.preventDefault()
preventDefault(st) == [st EXCEPT !.prevented = TRUE]

\* MenuLinks.handleTab
handleTab(st, self, event) == st

\* MenuLinks.onMenuitemKeydown
onMenuitemKeydown(st, self, event) ==
    CASE event.key = "ArrowUp" ->
            preventDefault(handleUpArrow(st, self, event.target))
      [] event.key = "ArrowDown" ->
            preventDefault(handleDownArrow(st, self, event.target))
      [] event.key = "ArrowLeft" -> handleLeftArrow(st, self)
      [] event.key = "ArrowRight" -> handleRightArrow(st, self)
      [] event.key = "Tab" -> handleTab(st, self, event)
      [] event.key = "Escape" ->
            LET st1 == linksHandleEscape(st, self)
            IN  IF ~ mqMatches(self)
                THEN preventDefault([st1 EXCEPT !.stopped = TRUE])
                ELSE st1
      [] OTHER -> st


(***************************************************************************)
(* Keyboard handlers of MenuButton, and the dispatch of a keydown event.   *)
(***************************************************************************)
\* MenuButton.focusFirstItem
RECURSIVE focusFirstItem(_, _)
\* MenuButton.focusFirstItem: the element the recursive call is made with
\* (0: the method returns without calling itself)
focusFirstItemNextSameElement(a, element) ==
    LET controlsId == a[element]["data-menu-controls"]
        nestedList == IF controlsId # Null
                      THEN getElementById(a, controlsId) ELSE 0
        firstItem == querySelector(nestedList, SelLink)
    IN  IF nestedList = 0 \/ firstItem = 0 THEN 0
        ELSE IF ~ isController(firstItem) /\ D[firstItem].tag # "a"
        THEN element
        ELSE 0

focusFirstItemNext(a, element) ==
    LET controlsId == a[element]["data-menu-controls"]
        nestedList == IF controlsId # Null
                      THEN getElementById(a, controlsId) ELSE 0
        firstItem == querySelector(nestedList, SelLink)
    IN  IF nestedList = 0 \/ firstItem = 0 THEN 0
        ELSE IF ~ isController(firstItem) /\ D[firstItem].tag # "a"
        THEN firstItem
        ELSE 0

focusFirstItem(st, element) ==
    LET controlsId == st.attr[element]["data-menu-controls"]
        nestedList == IF controlsId # Null
                      THEN getElementById(st.attr, controlsId) ELSE 0
        firstItem == querySelector(nestedList, SelLink)
    IN  IF nestedList = 0 THEN st
        ELSE IF firstItem = 0 THEN st
        ELSE IF ~ isController(firstItem) /\ D[firstItem].tag # "a"
        THEN focusFirstItem(st, firstItem)
        ELSE focusOn(st, firstItem)

\* MenuButton.onButtonKeydown (no ctrl, alt or meta key held)
onButtonKeydown(st, self, event) ==
    LET relatedMenu == nextElementSibling(self.domNode)
    IN  CASE event.key = "ArrowUp" -> handleUpArrow(st, self, self.domNode)
          [] event.key = "ArrowDown" ->
                IF relatedMenu = 0 THEN Throw(st)
                ELSE IF st.attr[relatedMenu]["data-depth"] = "1"
                THEN preventDefault(focusFirstItem(
                         openPopup(IF ~ mqMatches(self) THEN closeAll(st, self)
                                   ELSE st, self),
                         event.target))
                ELSE preventDefault(handleDownArrow(st, self, event.target))
          [] event.key = "ArrowLeft" -> handleLeftArrow(st, self)
          [] event.key = "ArrowRight" ->
                IF relatedMenu # 0 /\ st.attr[relatedMenu]["data-depth"] # "1"
                THEN focusFirstItem(openPopup(st, self), self.domNode)
                ELSE handleRightArrow(st, self)
          [] event.key = "Escape" -> preventDefault(closePopup(st, self))
          [] OTHER -> st

\* a keydown handler; an exception ends the handler that raised it only
runKeydown(st, l, event) ==
    CASE l.handler = "onMenuitemKeydown" -> onMenuitemKeydown(st, l.self, event)
      [] l.handler = "onButtonKeydown" -> onButtonKeydown(st, l.self, event)
      [] l.handler = "handleEscape" -> handleEscape(st, l.self, event)
      [] OTHER -> st

RECURSIVE runKeydownEach(_, _, _)
runKeydownEach(st, ls, event) ==
    IF ls = << >> THEN st
    ELSE runKeydownEach(runKeydown(st, Head(ls), event), Tail(ls), event)

RECURSIVE dispatchKeydownPath(_, _, _)
dispatchKeydownPath(st, path, event) ==
    IF path = << >> \/ st.stopped THEN st
    ELSE dispatchKeydownPath(
             runKeydownEach(st, ListenersAt(st, Head(path), "keydown"), event),
             Tail(path), event)

\* a keydown event dispatched on target
dispatchKeydown(st, target, key) ==
    dispatchKeydownPath(st, Path(target), Event("keydown", target, key))

RECURSIVE runMousedownEach(_, _, _)
runMousedownEach(st, ls, event) ==
    IF ls = << >> THEN st
    ELSE runMousedownEach(onBackgroundMousedown(st, Head(ls).self, event),
                          Tail(ls), event)

\* a mousedown event dispatched on target: only the document has listeners
dispatchMousedown(st, target) ==
    runMousedownEach(st, ListenersAt(st, Document, "mousedown"),
                     Event("mousedown", target, ""))


(***************************************************************************)
(* AccessibleMenu.destroy and destroyAll.                                  *)
(***************************************************************************)
\* the methods class MenuController declares
MenuControllerMethods == {"constructor", "getMobileBreakpoint", "initializeMenus"}

\* AccessibleMenu.destroy: instance.destroy() is a call of undefined when
\* the class declares no destroy, a TypeError that leaves the map as it is
destroy(mi, menuContainer) ==
    IF menuContainer \notin DOMAIN mi
    THEN [ menuInstances |-> mi, err |-> FALSE ]
    ELSE IF "destroy" \notin MenuControllerMethods
    THEN [ menuInstances |-> mi, err |-> TRUE ]
    ELSE [ menuInstances |-> [c \in DOMAIN mi \ {menuContainer} |-> mi[c]],
           err |-> FALSE ]

\* AccessibleMenu.destroyAll: forEach over the map ends at the first
\* exception
RECURSIVE destroyEach(_, _)
destroyEach(r, containers) ==
    IF containers = << >> \/ r.err THEN r
    ELSE destroyEach(destroy(r.menuInstances, Head(containers)),
                     Tail(containers))

destroyAll(mi) ==
    destroyEach([ menuInstances |-> mi, err |-> FALSE ], InOrder(DOMAIN mi))

(***************************************************************************)
(* The state machine.                                                      *)
(***************************************************************************)
Keys == {"ArrowUp", "ArrowDown", "ArrowLeft", "ArrowRight", "Escape", "Tab"}

\* the mobile triggers of the markup
Triggers == {n \in Elements : D[n].id # Null}

\* the PlainLinks of the markup
PlainLinks == {n \in Elements : D[n].tag = "a"}

\* the elements the user can move the focus to
Focusable ==
    {n \in Controllers \cup PlainLinks \cup Triggers : isFocusable(n)}

\* the elements the user clicks on: the Controllers, the mobile triggers,
\* one element inside every MenuContainer and the body (0)
Clicked == Controllers \cup Triggers \cup {TopLevelMenu(c) : c \in Containers}
           \cup {0}

\* the elements the user presses the pointer on: one inside every
\* MenuContainer and the body (0)
Pressed == {TopLevelMenu(c) : c \in Containers} \cup {0}

\* the MenuContainer's own breakpoint and the configured one both say desktop
Desktop ==
    /\ ~ matches(Cfg.mobileBreakpoint, width)
    /\ \A c \in Containers : ~ matches(getMobileBreakpoint(attr, c), width)

Op(name, target, key) == [ op |-> name, target |-> target, key |-> key ]

\* the Controllers that are expanded now
Open == {c \in Controllers : attr[c]["aria-expanded"] = "true"}

\* the attributes of the markup; v is the aria-expanded the Controllers
\* carry and t the aria-expanded the mobile trigger carries
Markup(E, v, t) ==
    [n \in 1..Len(E) |-> [a \in AttrNames |->
        CASE a = "data-plugin-id" -> E[n].pid
          [] a = "data-depth" -> E[n].depth
          [] a = "id" -> E[n].id
          [] a = "data-mobile" -> E[n].mobile
          [] a = "data-breakpoint" -> E[n].bp
          [] a = "aria-expanded" ->
                IF E[n].id # Null THEN t
                ELSE IF E[n].tag \in {"button", "span"} THEN v
                ELSE Null
          [] OTHER -> Null]]

\* the state after construction, for the scenarios of S
Start(S) ==
    /\ \E sc \in S :
          doc = sc[1] /\ cfg = Configs[sc[2]] /\ dom = Dom(Docs[sc[1]], sc[2])
    /\ width \in Widths(D)
    /\ \E v \in {Null, "true", "false"}, t \in {Null, "false"} :
          attr = Markup(D, v, t)
    /\ focus = 0
    /\ listeners = << >>
    /\ menuInstances = << >>
    /\ scrollLock = FALSE
    /\ raised = FALSE
    /\ defaultPrevented = FALSE
    /\ mobileSeen = FALSE
    /\ before = {}
    /\ last = Op("none", 0, "")

Init == Start(Scenarios)

\* the state the handlers work on
Now == [ attr |-> attr, focus |-> focus, listeners |-> listeners,
         scrollLock |-> scrollLock, err |-> FALSE, stopped |-> FALSE,
         prevented |-> FALSE ]

\* the handlers of an event ran and left st
Leave(st) ==
    /\ attr' = st.attr
    /\ focus' = st.focus
    /\ listeners' = st.listeners
    /\ scrollLock' = st.scrollLock
    /\ raised' = st.err
    /\ defaultPrevented' = st.prevented

\* the Controllers init() has to generate an identifier for
NeedId == {n \in SelControllers : attr[n]["data-plugin-id"] = Null
                                  /\ attr[ContainerOf(n)]["data-once-ariaControls"] = Null}

\* init() was called before: once() has marked the MenuContainers
Initialised ==
    \E c \in Containers : attr[c]["data-once-menuControl"] # Null

\* menu.init(); a call after the first is recorded as "reinit"
CallInit ==
    /\ \E rnd \in [NeedId -> 0..(RandomSpace - 1)] :
          LET r == init([ attr |-> attr, listeners |-> listeners,
                          menuInstances |-> menuInstances, err |-> FALSE ],
                        rnd)
          IN  /\ attr' = r.attr
              /\ listeners' = r.listeners
              /\ menuInstances' = r.menuInstances
              /\ raised' = r.err
    /\ defaultPrevented' = FALSE
    /\ mobileSeen' = (mobileSeen \/ ~ Desktop)
    /\ before' = Open
    /\ last' = Op(IF Initialised THEN "reinit" ELSE "init", 0, "")
    /\ UNCHANGED << doc, dom, cfg, width, focus, scrollLock >>

WindowClickListeners(ls) ==
    Len(SelectSeq(ls, LAMBDA l : l.target = Window /\ l.type = "click"))

\* the user clicks on an element
Click(n) ==
    /\ WindowClickListeners(dispatchClick(Now, n).listeners) <= MaxWindowListeners
    /\ Leave(dispatchClick(Now, n))
    /\ last' = Op("click", n, "")
    /\ before' = Open
    /\ UNCHANGED << doc, dom, cfg, width, menuInstances, mobileSeen >>

\* the user presses a key; the event goes to the focused element
KeyDown(key) ==
    /\ Leave(dispatchKeydown(Now, focus, key))
    /\ last' = Op("keydown", focus, key)
    /\ before' = Open
    /\ UNCHANGED << doc, dom, cfg, width, menuInstances, mobileSeen >>

\* the user presses the pointer on an element
Mousedown(n) ==
    /\ Leave(dispatchMousedown(Now, n))
    /\ last' = Op("mousedown", n, "")
    /\ before' = Open
    /\ UNCHANGED << doc, dom, cfg, width, menuInstances, mobileSeen >>

\* the user moves the focus to an element
UserFocus(n) ==
    /\ n # focus
    /\ focus' = n
    /\ raised' = FALSE
    /\ defaultPrevented' = FALSE
    /\ last' = Op("none", 0, "")
    /\ before' = {}
    /\ UNCHANGED << doc, dom, cfg, width, attr, listeners, menuInstances,
                    scrollLock, mobileSeen >>

\* the viewport is resized
Resize(w) ==
    /\ w # width
    /\ width' = w
    /\ raised' = FALSE
    /\ defaultPrevented' = FALSE
    /\ last' = Op("none", 0, "")
    /\ before' = {}
    /\ UNCHANGED << doc, dom, cfg, attr, focus, listeners, menuInstances,
                    scrollLock >>
    /\ mobileSeen' = (mobileSeen \/ (Initialised /\ ~ Desktop'))

\* menu.destroy(menuContainer)
Destroy(c) ==
    /\ menuInstances' = destroy(menuInstances, c).menuInstances
    /\ raised' = destroy(menuInstances, c).err
    /\ defaultPrevented' = FALSE
    /\ last' = Op("destroy", c, "")
    /\ before' = {}
    /\ UNCHANGED << doc, dom, cfg, width, attr, focus, listeners, scrollLock,
                    mobileSeen >>

\* menu.destroyAll()
DestroyAll ==
    /\ menuInstances' = destroyAll(menuInstances).menuInstances
    /\ raised' = destroyAll(menuInstances).err
    /\ defaultPrevented' = FALSE
    /\ last' = Op("destroyAll", 0, "")
    /\ before' = {}
    /\ UNCHANGED << doc, dom, cfg, width, attr, focus, listeners, scrollLock,
                    mobileSeen >>

Next ==
    \/ CallInit
    \/ \E n \in Clicked : Click(n)
    \/ \E key \in Keys : KeyDown(key)
    \/ \E n \in Pressed : Mousedown(n)
    \/ \E n \in Focusable : UserFocus(n)
    \/ \E w \in Widths(D) : Resize(w)
    \/ \E c \in Containers : Destroy(c)
    \/ DestroyAll

Spec == Init /\ [][Next]_vars

\* the scenarios of a configuration whose controllerTags is empty
EmptyTagScenarios == { <<1, 3>>, <<5, 3>>, <<6, 3>> }

SpecEmptyTags == Start(EmptyTagScenarios) /\ [][Next]_vars

TypeOK ==
    /\ focus \in Elements \cup {0}
    /\ before \subseteq Controllers
    /\ \A n \in Elements : attr[n]["aria-expanded"] \in {Null, "true", "false"}


(***************************************************************************)
(* Vocabulary of the claims.                                               *)
(***************************************************************************)
Expanded(n) == attr[n]["aria-expanded"] = "true"

\* the Controllers among the direct MenuItems of a Level
ControllersOfLevel(level) ==
    {c \in Controllers : parentElement(parentElement(c)) = level}

\* the Controllers whose submenus an element lies in
RECURSIVE AncestorControllers(_)
AncestorControllers(n) ==
    IF OwnerOf(n) = 0 THEN {}
    ELSE {OwnerOf(n)} \cup AncestorControllers(OwnerOf(n))

\* the Controllers of the depth-0 Level of a MenuContainer
TopLevelControllers(c) == ControllersOfLevel(TopLevelMenu(c))

\* the media query of the MenuContainer of element n says mobile
MobileFor(n) == matches(getMobileBreakpoint(attr, ContainerOf(n)), width)

\* the step is a click on Controller c
ClickOn(c) == last'.op = "click" /\ last'.target = c

\* the step is a press of key on Controller c
KeyOn(c, key) == last'.op = "keydown" /\ last'.target = c /\ last'.key = key

(***************************************************************************)
(* C1: with the viewport in desktop mode from init() on, every Level has   *)
(* at most one expanded Controller among its direct MenuItems.             *)
(***************************************************************************)
C1_OneExpandedPerLevel ==
    (Initialised /\ ~ mobileSeen) =>
        \A level \in SelUl :
            Cardinality({c \in ControllersOfLevel(level) : Expanded(c)}) <= 1

(***************************************************************************)
(* C2: on desktop, the opening action (a click on a collapsed Controller,  *)
(* or an ArrowRight or ArrowDown that expands it) on a Controller of depth *)
(* >= 1 leaves every expanded Controller of its ancestor chain expanded.   *)
(***************************************************************************)
C2_OpenKeepsAncestors ==
    [][\A c \in Controllers :
          ( /\ Initialised /\ Desktop
            /\ AncestorControllers(c) # {}
            /\ ~ Expanded(c)
            /\ \/ ClickOn(c)
               \/ (KeyOn(c, "ArrowRight") /\ Expanded(c)')
               \/ (KeyOn(c, "ArrowDown") /\ Expanded(c)') )
          => \A p \in AncestorControllers(c) : Expanded(p) => Expanded(p)'
      ]_vars

(***************************************************************************)
(* C3: a click on a collapsed Controller leaves it expanded and a click on *)
(* an expanded Controller leaves it collapsed, at every depth, in desktop  *)
(* and in mobile mode.                                                     *)
(***************************************************************************)
C3_ClickToggles ==
    [][\A c \in Controllers :
          (Initialised /\ ClickOn(c)) => (Expanded(c)' <=> ~ Expanded(c))
      ]_vars

\* the Controllers of a MenuContainer
ControllersIn(m) == {c \in Controllers : ContainerOf(c) = m}

(***************************************************************************)
(* C4: a click that opens a depth-0 Controller collapses every other       *)
(* depth-0 Controller of the same MenuContainer when the viewport is       *)
(* desktop, and leaves the expanded state of every other Controller        *)
(* unchanged when the viewport is mobile.                                  *)
(***************************************************************************)
C4_OpenTopLevelClosesOthers ==
    [][\A m \in Containers : \A c \in TopLevelControllers(m) :
          (Initialised /\ ClickOn(c) /\ ~ Expanded(c) /\ Expanded(c)')
          => IF MobileFor(c)
             THEN \A o \in Controllers \ {c} : Expanded(o)' <=> Expanded(o)
             ELSE \A o \in TopLevelControllers(m) \ {c} : ~ Expanded(o)'
      ]_vars

\* a click opened a depth-0 Controller on desktop while another depth-0
\* Controller of its MenuContainer was expanded
C4_WitnessDesktop ==
    /\ last.op = "click" /\ last.target \in Controllers
    /\ ~ MobileFor(last.target)
    /\ last.target \in TopLevelControllers(ContainerOf(last.target))
    /\ last.target \notin before /\ Expanded(last.target)
    /\ (before \cap TopLevelControllers(ContainerOf(last.target))) # {}
    /\ \A o \in TopLevelControllers(ContainerOf(last.target)) \ {last.target} :
          ~ Expanded(o)

(***************************************************************************)
(* C5: immediately after a call of init(), every Controller of every       *)
(* MenuContainer the call initialised is collapsed (aria-expanded =        *)
(* 'false'), whatever expanded value the markup carried before.            *)
(***************************************************************************)
C5_CollapsedAfterInit ==
    [][last'.op \in {"init", "reinit"} =>
          \A m \in (DOMAIN menuInstances') \ (DOMAIN menuInstances) :
              \A c \in ControllersIn(m) : attr'[c]["aria-expanded"] = "false"
      ]_vars

\* init() ran on markup whose Controllers all carried aria-expanded='true'
C5_WitnessAuthoredOpen ==
    /\ last.op = "init"
    /\ Controllers # {} /\ before = Controllers
    /\ DOMAIN menuInstances = Containers
    /\ \A c \in Controllers : attr[c]["aria-expanded"] = "false"

(***************************************************************************)
(* C6: a pointer-down whose target is outside the MenuContainer collapses  *)
(* every expanded Controller of that container and leaves the focus on a   *)
(* Controller that was open when the viewport is desktop; when the         *)
(* viewport is mobile it changes no Controller's expanded state.           *)
(***************************************************************************)
C6_OutsidePointerDown ==
    [][\A m \in Containers :
          (Initialised /\ last'.op = "mousedown" /\ ~ contains(m, last'.target))
          => IF matches(getMobileBreakpoint(attr, m), width)
             THEN \A c \in ControllersIn(m) : Expanded(c)' <=> Expanded(c)
             ELSE /\ \A c \in ControllersIn(m) : ~ Expanded(c)'
                  /\ (\E c \in ControllersIn(m) : Expanded(c))
                        => (focus' \in Controllers /\ Expanded(focus'))
      ]_vars

(***************************************************************************)
(* C7: however often init() is called on the same context, there is one    *)
(* menuInstances entry per MenuContainer, one MenuButton per Controller    *)
(* (the document listener each MenuButton registers) and every Controller  *)
(* carries exactly one keydown listener and exactly one click listener, so *)
(* that a key press or click runs the Controller's handler once.           *)
(***************************************************************************)
\* the MenuButton objects constructed for a Controller
MenuButtonsOf(c) ==
    SelectSeq(listeners, LAMBDA l : /\ l.handler = "onBackgroundMousedown"
                                    /\ l.self.domNode = c)

ListenersOn(n, type) ==
    SelectSeq(listeners, LAMBDA l : l.target = n /\ l.type = type)

C7_OneListenerPerController ==
    Initialised =>
        /\ DOMAIN menuInstances = Containers
        /\ \A c \in Controllers :
              /\ Len(MenuButtonsOf(c)) = 1
              /\ Len(ListenersOn(c, "keydown")) = 1
              /\ Len(ListenersOn(c, "click")) = 1

\* init() was called again on an initialised context
C7_WitnessReinit ==
    /\ last.op = "reinit"
    /\ Controllers # {}
    /\ DOMAIN menuInstances = Containers
    /\ \A c \in Controllers : Len(ListenersOn(c, "click")) = 1

(***************************************************************************)
(* C8: destroy(container) of an initialised MenuContainer returns without  *)
(* raising and removes the container from menuInstances; destroyAll()      *)
(* returns without raising and leaves menuInstances empty.                 *)
(***************************************************************************)
C8_DestroyReturns ==
    [][/\ (last'.op = "destroy" /\ last'.target \in DOMAIN menuInstances)
            => (~ raised' /\ last'.target \notin DOMAIN menuInstances')
       /\ last'.op = "destroyAll"
            => (~ raised' /\ DOMAIN menuInstances' = {})
      ]_vars

(***************************************************************************)
(* C9: a keydown or click on a Controller or PlainLink of a MenuContainer, *)
(* or a pointer-down outside it, that follows destroy(container) finds no  *)
(* listener of the Navigation Engine left for that container and changes   *)
(* neither an expanded state nor the focus.                                *)
(***************************************************************************)
NavigationHandlers ==
    {"onButtonKeydown", "onButtonClick", "onBackgroundMousedown",
     "onMenuitemKeydown"}

\* the listeners the Navigation Engine attached for a MenuContainer
NavigationListeners(m) ==
    SelectSeq(listeners, LAMBDA l : /\ l.handler \in NavigationHandlers
                                    /\ contains(m, l.self.domNode))

C9_DestroyUnbinds ==
    [][\A m \in Containers :
          ( /\ last.op = "destroy" /\ last.target = m /\ Initialised
            /\ \/ /\ last'.op \in {"click", "keydown"}
                  /\ last'.target \in Controllers \cup PlainLinks
                  /\ contains(m, last'.target)
               \/ /\ last'.op = "mousedown"
                  /\ ~ contains(m, last'.target) )
          => /\ NavigationListeners(m) = << >>
             /\ Open' = Open
             /\ focus' = focus
      ]_vars

(***************************************************************************)
(* C10: after init(), in every initialised MenuContainer the top-level     *)
(* Level has data-depth '0' and every Level nested in a MenuItem of a      *)
(* Level of depth d has data-depth d+1, for every configured item class    *)
(* and also through non-list wrapper elements.                             *)
(***************************************************************************)
\* the number of Levels a Level is nested in
RECURSIVE LevelDepth(_)
LevelDepth(u) ==
    IF LevelOf(parentElement(u)) = 0 THEN 0
    ELSE 1 + LevelDepth(LevelOf(parentElement(u)))

C10_DepthByNesting ==
    Initialised =>
        \A m \in DOMAIN menuInstances :
            \A u \in SelUl \cap Descendants(m) :
                attr[u]["data-depth"] = toString(LevelDepth(u))

(***************************************************************************)
(* C11: for every Controller that has an adjacent following sibling, after *)
(* binding aria-haspopup is 'true', aria-controls and data-menu-controls   *)
(* both equal the sibling's id, that id is 'panel-' followed by the        *)
(* Controller's identifier (the one of the markup, or a generated one),    *)
(* and aria-label equals the Controller's trimmed text content.            *)
(***************************************************************************)
\* the text of an element from its first to its last entry that is not
\* white space
TrimmedText(n) ==
    LET inked == {i \in 1..Len(D[n].text) : D[n].text[i] \notin WhiteSpace}
    IN  IF inked = {} THEN ""
        ELSE Join(SubSeq(D[n].text, Min(inked), Max(inked)))

\* the identifiers init() generates
GeneratedIds == {"menu-" \o toString(k) : k \in 0..(RandomSpace - 1)}

C11_BoundAttributes ==
    Initialised =>
        \A c \in Controllers :
            LET sibling == nextElementSibling(c)
                id == attr[c]["data-plugin-id"]
            IN  sibling # 0 =>
                    /\ attr[c]["aria-haspopup"] = "true"
                    /\ attr[sibling]["id"] # Null
                    /\ attr[c]["aria-controls"] = attr[sibling]["id"]
                    /\ attr[c]["data-menu-controls"] = attr[sibling]["id"]
                    /\ D[c].pid # Null => id = D[c].pid
                    /\ D[c].pid = Null => id \in GeneratedIds
                    /\ attr[sibling]["id"] = "panel-" \o id
                    /\ attr[c]["aria-label"] = TrimmedText(c)

\* init() bound a Controller that had no identifier and whose text is
\* surrounded by white space
C11_WitnessGeneratedId ==
    /\ last.op = "init"
    /\ \E c \in Controllers :
          /\ nextElementSibling(c) # 0
          /\ D[c].pid = Null
          /\ Head(D[c].text) \in WhiteSpace
          /\ attr[c]["aria-label"] = "More"
          /\ attr[nextElementSibling(c)]["id"] \in
                {"panel-" \o g : g \in GeneratedIds}

(***************************************************************************)
(* C12: no click or keydown handler bound by init() raises, whatever the   *)
(* key (ArrowUp, ArrowDown, ArrowLeft, ArrowRight, Escape, Tab) and        *)
(* whatever the element: a lookup that resolves to nothing (a Controller   *)
(* with no adjacent submenu element, a sibling item without a link) makes  *)
(* the handler a no-op, not an exception.                                  *)
(***************************************************************************)
C12_HandlersNeverRaise ==
    (Initialised /\ last.op \in {"click", "keydown"}) => ~ raised

(***************************************************************************)
(* C13: the identifiers init() generates are unique: after init(), a       *)
(* Controller that had no identifier in the markup shares its identifier   *)
(* with no other Controller, and its submenu shares its id with no other   *)
(* submenu.                                                                *)
(***************************************************************************)
C13_GeneratedIdsUnique ==
    Initialised =>
        \A c \in Controllers : \A o \in Controllers \ {c} :
            D[c].pid = Null =>
                /\ attr[c]["data-plugin-id"] # attr[o]["data-plugin-id"]
                /\ (nextElementSibling(c) # 0 /\ nextElementSibling(o) # 0)
                      => attr[nextElementSibling(c)]["id"]
                            # attr[nextElementSibling(o)]["id"]

(***************************************************************************)
(* C14: ArrowRight pressed on a collapsed top-level Controller whose       *)
(* adjacent submenu is the depth-1 Level expands that Controller and moves *)
(* the focus to the first item of its submenu.                             *)
(***************************************************************************)
\* the first link or Controller inside the submenu of Controller c (0: none)
FirstItemOf(c) == querySelector(nextElementSibling(c), SelLink)

\* c is a top-level Controller whose adjacent submenu is the depth-1 Level
TopLevelWithSubmenu(c) ==
    /\ c \in TopLevelControllers(ContainerOf(c))
    /\ nextElementSibling(c) # 0
    /\ attr[nextElementSibling(c)]["data-depth"] = "1"

C14_ArrowRightOpens ==
    [][\A c \in Controllers :
          ( /\ Initialised /\ KeyOn(c, "ArrowRight")
            /\ TopLevelWithSubmenu(c) /\ ~ Expanded(c) )
          => (Expanded(c)' /\ focus' = FirstItemOf(c))
      ]_vars

(***************************************************************************)
(* C15: when ArrowRight or ArrowLeft advances to the next or previous      *)
(* top-level item (pressed on a top-level PlainLink, or on a PlainLink     *)
(* inside a submenu: ArrowRight at any depth, ArrowLeft in a depth-1       *)
(* submenu), on desktop every Controller that was open before is           *)
(* collapsed, the focus lands on the target item's primary link, and a     *)
(* target that is a Controller ends expanded with the focus on itself.     *)
(***************************************************************************)
\* the MenuItems of the depth-0 Level of the MenuContainer of element n
TopItems(n) == children(TopLevelMenu(ContainerOf(n)))

\* the top-level MenuItem an element lies in (0: none)
TopItemOf(n) ==
    closest(n, {i \in Elements : parentElement(i) = TopLevelMenu(ContainerOf(n))})

\* the primary link of the top-level item next to (d = 1) or before
\* (d = -1) the one element n lies in, with wrap-around
TopLevelTarget(n, d) ==
    LET items == TopItems(n)
        i == indexOf(items, TopItemOf(n))
    IN  querySelector(at(items, (i + d + Len(items)) % Len(items)), SelLink)

\* the step is a key press on PlainLink t that advances by d top-level items
Advances(t, d) ==
    /\ last'.op = "keydown" /\ last'.target = t
    /\ TopItemOf(t) # 0
    /\ \/ d = 1 /\ last'.key = "ArrowRight"
       \/ d = -1 /\ last'.key = "ArrowLeft" /\ StructDepth(t) <= 1

C15_AdvanceTopLevel ==
    [][\A t \in PlainLinks : \A d \in {1, -1} :
          (Initialised /\ Desktop /\ Advances(t, d))
          => LET target == TopLevelTarget(t, d)
             IN  /\ focus' = target
                 /\ \A c \in Open \ {target} : ~ Expanded(c)'
                 /\ target \in Controllers => Expanded(target)'
      ]_vars

(***************************************************************************)
(* C16: top-level navigation wraps around: with N top-level items,         *)
(* ArrowRight pressed on the item at position i, or on a PlainLink nested  *)
(* below it, moves the focus to the primary link of the item at position   *)
(* (i+1) mod N, and ArrowLeft to the one at position (i-1) mod N, in every *)
(* viewport.                                                               *)
(***************************************************************************)
C16_TopLevelWraps ==
    [][\A t \in PlainLinks \cup {c \in Controllers : StructDepth(c) = 0} :
          \A d \in {1, -1} :
              (Initialised /\ Advances(t, d)) => focus' = TopLevelTarget(t, d)
      ]_vars

(***************************************************************************)
(* C17: ArrowDown pressed on a top-level Controller whose immediately      *)
(* following sibling is the depth-1 submenu expands that Controller, moves *)
(* the focus to the first link or Controller inside the submenu and        *)
(* prevents the default action of the event.                               *)
(***************************************************************************)
C17_ArrowDownOpens ==
    [][\A c \in Controllers :
          (Initialised /\ KeyOn(c, "ArrowDown") /\ TopLevelWithSubmenu(c))
          => /\ Expanded(c)'
             /\ focus' = FirstItemOf(c)
             /\ defaultPrevented'
      ]_vars

(***************************************************************************)
(* C18: inside an open popup, ArrowDown pressed on the last visible        *)
(* focusable item moves the focus to the first visible focusable item of   *)
(* that popup, and ArrowUp pressed on the first visible focusable item     *)
(* moves the focus to the last one, whether the pressed item is a          *)
(* PlainLink or a Controller.                                              *)
(***************************************************************************)
\* the visible PlainLinks and Controllers inside popup p, in document order
VisibleItems(p) ==
    InOrder({n \in Descendants(p) \cap (PlainLinks \cup Controllers) :
                checkVisibility(attr, n)})

\* the step is a press of key on element t
KeyPressedOn(t, key) ==
    last'.op = "keydown" /\ last'.target = t /\ last'.key = key

C18_PopupWraps ==
    [][\A t \in PlainLinks \cup Controllers :
          LET items == VisibleItems(PopupOf(t))
          IN  (Initialised /\ PopupOf(t) # 0 /\ checkVisibility(attr, t))
              => /\ (KeyPressedOn(t, "ArrowDown") /\ t = at(items, Len(items) - 1))
                       => focus' = at(items, 0)
                 /\ (KeyPressedOn(t, "ArrowUp") /\ t = at(items, 0))
                       => focus' = at(items, Len(items) - 1)
      ]_vars

(***************************************************************************)
(* C19: ArrowUp pressed on a PlainLink that sits in the top-level          *)
(* (depth-0) Level is a no-op: the focus and every Controller's expanded   *)
(* state are unchanged.                                                    *)
(***************************************************************************)
\* the PlainLinks of the MenuItems of a depth-0 Level
TopLevelPlainLinks ==
    {t \in PlainLinks :
        /\ ContainerOf(t) # 0
        /\ parentElement(parentElement(t)) = TopLevelMenu(ContainerOf(t))}

C19_ArrowUpTopLevelNoOp ==
    [][\A t \in TopLevelPlainLinks :
          (Initialised /\ KeyPressedOn(t, "ArrowUp"))
          => (focus' = focus /\ Open' = Open)
      ]_vars

(***************************************************************************)
(* C20: with the PlainLinks of a MenuContainer taken in document order,    *)
(* ArrowDown on a PlainLink moves the focus to the next link, from the     *)
(* last link to the first, and ArrowUp moves it to the previous link, from *)
(* the first link to the last, also when the pressed link is a top-level   *)
(* item.                                                                   *)
(***************************************************************************)
\* the PlainLinks of the MenuContainer of element n, in document order
LinksWith(n) == InOrder(PlainLinks \cap Descendants(ContainerOf(n)))

\* the link d places after link t, with wrap-around
LinkFrom(t, d) ==
    LET links == LinksWith(t)
    IN  at(links, (indexOf(links, t) + d + Len(links)) % Len(links))

C20_LinksInDocumentOrder ==
    [][\A t \in PlainLinks :
          (Initialised /\ ContainerOf(t) # 0)
          => /\ KeyPressedOn(t, "ArrowDown") => focus' = LinkFrom(t, 1)
             /\ KeyPressedOn(t, "ArrowUp") => focus' = LinkFrom(t, -1)
      ]_vars

(***************************************************************************)
(* C21: Escape pressed on a PlainLink inside an open submenu, controlled   *)
(* by a button or by the span of a mega menu, collapses exactly the        *)
(* Controller that owns that submenu, leaves the expanded state of every   *)
(* other Controller unchanged and moves the focus to the owning            *)
(* Controller.                                                             *)
(***************************************************************************)
C21_EscapeClosesOwner ==
    [][\A t \in PlainLinks :
          ( /\ Initialised /\ KeyPressedOn(t, "Escape")
            /\ OwnerOf(t) # 0 /\ Expanded(OwnerOf(t)) )
          => /\ ~ Expanded(OwnerOf(t))'
             /\ \A c \in Controllers \ {OwnerOf(t)} : Expanded(c)' <=> Expanded(c)
             /\ focus' = OwnerOf(t)
      ]_vars

(***************************************************************************)
(* C22: Escape pressed on a Controller that is collapsed and sits inside   *)
(* an open parent popup collapses the Controller of the parent popup and   *)
(* moves the focus to it, so that a second Escape on a nested Controller   *)
(* closes the submenu of its parent.                                       *)
(***************************************************************************)
C22_EscapeWalksUp ==
    [][\A c \in Controllers :
          ( /\ Initialised /\ KeyPressedOn(c, "Escape")
            /\ ~ Expanded(c)
            /\ OwnerOf(c) # 0 /\ Expanded(OwnerOf(c)) )
          => (~ Expanded(OwnerOf(c))' /\ focus' = OwnerOf(c))
      ]_vars

(***************************************************************************)
(* C23: ArrowLeft pressed on an item (PlainLink or Controller) of an open  *)
(* submenu whose owning Controller is not a top-level item, so that the    *)
(* item's Level has depth >= 2, collapses that owning Controller and moves *)
(* the focus to it.                                                        *)
(***************************************************************************)
C23_ArrowLeftClosesNested ==
    [][\A t \in PlainLinks \cup Controllers :
          ( /\ Initialised /\ KeyPressedOn(t, "ArrowLeft")
            /\ StructDepth(t) >= 2 /\ Expanded(OwnerOf(t)) )
          => (~ Expanded(OwnerOf(t))' /\ focus' = OwnerOf(t))
      ]_vars

(***************************************************************************)
(* C24: the body carries the scroll-lock marker (class js-prevent-scroll)  *)
(* exactly while at least one mobile trigger is expanded, after any        *)
(* sequence of trigger clicks, Escape presses and outside clicks, for any  *)
(* number of MenuContainers that declare a mobile trigger.                 *)
(***************************************************************************)
C24_ScrollLockWhileOpen ==
    Initialised => (scrollLock <=> \E t \in Triggers : Expanded(t))

(***************************************************************************)
(* C25: when a click on the expanded mobile trigger closes the mobile      *)
(* menu, every Controller inside the MenuContainer of that trigger is      *)
(* collapsed afterwards, whatever its state before the click.              *)
(***************************************************************************)
\* the MenuContainers whose data-mobile names trigger t
MenusOf(t) == {m \in Containers : D[m].mobile = "#" \o D[t].id}

\* the step is a click on element t
ClickedOn(t) == last'.op = "click" /\ last'.target = t

C25_CloseMobileCollapsesAll ==
    [][\A t \in Triggers : \A m \in MenusOf(t) :
          (Initialised /\ ClickedOn(t) /\ Expanded(t) /\ ~ Expanded(t)')
          => \A c \in ControllersIn(m) : ~ Expanded(c)'
      ]_vars

(***************************************************************************)
(* C26: while a mobile trigger is expanded, an Escape key press on any     *)
(* element, inside the menu (PlainLink or Controller) or outside it,       *)
(* collapses the trigger and moves the focus to the trigger (to one of     *)
(* them when several triggers were expanded).                              *)
(***************************************************************************)
C26_EscapeClosesMobile ==
    [][\A t \in Triggers :
          ( /\ Initialised /\ last'.op = "keydown" /\ last'.key = "Escape"
            /\ Expanded(t) )
          => /\ ~ Expanded(t)'
             /\ focus' \in {u \in Triggers : Expanded(u)}
      ]_vars

(***************************************************************************)
(* C27: while the mobile trigger is expanded, a click whose target is      *)
(* outside both the MenuContainer and the trigger collapses the trigger    *)
(* if the viewport is in mobile mode and leaves it expanded if the         *)
(* viewport is in desktop mode.                                            *)
(***************************************************************************)
C27_OutsideClickClosesMobile ==
    [][\A t \in Triggers : \A m \in MenusOf(t) :
          ( /\ Initialised /\ last'.op = "click"
            /\ ~ contains(m, last'.target) /\ last'.target # t
            /\ Expanded(t) )
          => IF matches(getMobileBreakpoint(attr, m), width)
             THEN ~ Expanded(t)'
             ELSE Expanded(t)'
      ]_vars

(***************************************************************************)
(* C28: init() never raises for structural absence (a MenuContainer        *)
(* without a top-level list, a Controller without an adjacent submenu, a   *)
(* data-mobile id that resolves to no element) and still initialises       *)
(* every other MenuContainer of the same call: every MenuContainer has its *)
(* MenuController, every Controller its click listener and every           *)
(* MenuContainer with a trigger its mobile listeners, while an unresolved  *)
(* mobile trigger binds no mobile listener.                                *)
(***************************************************************************)
MobileHandlers == {"mobileControl", "handleEscape", "onWindowClick"}

\* the listeners bound for the MobileMenuController of MenuContainer m
MobileListeners(m) ==
    SelectSeq(listeners, LAMBDA l : /\ l.handler \in MobileHandlers
                                    /\ l.self.domNode = m)

\* the element the data-mobile of MenuContainer m names (0: none)
TriggerOf(m) ==
    IF attr[m]["data-mobile"] = Null THEN 0
    ELSE getElementById(attr, stripHash(attr[m]["data-mobile"]))

C28_InitToleratesAbsence ==
    last.op \in {"init", "reinit"} =>
        /\ ~ raised
        /\ DOMAIN menuInstances = Containers
        /\ \A c \in Controllers : Len(ListenersOn(c, "click")) = 1
        /\ \A m \in Containers :
              IF TriggerOf(m) = 0 THEN MobileListeners(m) = << >>
              ELSE \E i \in 1..Len(listeners) :
                      /\ listeners[i].handler = "mobileControl"
                      /\ listeners[i].target = TriggerOf(m)
                      /\ listeners[i].self.domNode = m

\* init() ran on a document that holds a MenuContainer without a list whose
\* data-mobile names no element, next to a MenuContainer with a trigger
C28_WitnessAbsence ==
    /\ last.op = "init" /\ ~ raised
    /\ \E m \in Containers : \E o \in Containers \ {m} :
          /\ TopLevelMenu(m) = 0
          /\ attr[m]["data-mobile"] # Null /\ TriggerOf(m) = 0
          /\ attr[m]["data-once-mobileMenuControls"] = "true"
          /\ TriggerOf(o) # 0 /\ MobileListeners(o) # << >>

(***************************************************************************)
(* C29: with an empty controller tag set (controllerTags = []), init()     *)
(* completes without raising and binds zero Controllers: every             *)
(* MenuContainer has its MenuController and no element carries a listener  *)
(* of a MenuButton.                                                        *)
(***************************************************************************)
C29_EmptyTagsInert ==
    (emptySelector /\ last.op \in {"init", "reinit"}) =>
        /\ ~ raised
        /\ DOMAIN menuInstances = Containers
        /\ \A i \in 1..Len(listeners) :
              listeners[i].handler \notin
                  {"onButtonKeydown", "onButtonClick", "onBackgroundMousedown"}

(***************************************************************************)
(* C30: after init() with the default controller tag set, a span           *)
(* Controller with an adjacent submenu has data-menu-controls and the      *)
(* submenu id set but carries neither aria-haspopup nor aria-label, and    *)
(* when that submenu wraps a nested Level the nested Level carries the     *)
(* same data-menu-controls value.                                          *)
(***************************************************************************)
\* the Level a submenu element wraps (0: none, or the submenu is the Level)
NestedLevel(submenu) ==
    IF submenu \in SelUl THEN 0 ELSE querySelector(submenu, SelUl)

C30_SpanLinkedWithoutPopup ==
    (Initialised /\ Cfg.controllerTags = DEFAULT_CONFIG.controllerTags) =>
        \A c \in Controllers :
            LET submenu == nextElementSibling(c)
            IN  (D[c].tag = "span" /\ submenu # 0) =>
                    /\ attr[submenu]["id"] # Null
                    /\ attr[c]["data-menu-controls"] = attr[submenu]["id"]
                    /\ attr[c]["aria-haspopup"] = Null
                    /\ attr[c]["aria-label"] = Null
                    /\ NestedLevel(submenu) # 0 =>
                          attr[NestedLevel(submenu)]["data-menu-controls"]
                              = attr[c]["data-menu-controls"]

(***************************************************************************)
(* C31: inside an open popup ArrowUp is the mirror of ArrowDown: for every *)
(* visible PlainLink or Controller x of the popup, ArrowDown followed by   *)
(* ArrowUp leaves the focus on x, and ArrowUp followed by ArrowDown leaves *)
(* the focus on x.                                                         *)
(***************************************************************************)
\* the state the handlers work on after the step
Then == [ attr |-> attr', focus |-> focus', listeners |-> listeners',
          scrollLock |-> scrollLock', err |-> FALSE, stopped |-> FALSE,
          prevented |-> FALSE ]

\* the element that has the focus when key is pressed after the step
FocusAfter(key) == dispatchKeydown(Then, focus', key).focus

C31_ArrowUpMirrorsArrowDown ==
    [][\A x \in PlainLinks \cup Controllers :
          (Initialised /\ PopupOf(x) # 0 /\ checkVisibility(attr, x))
          => /\ KeyPressedOn(x, "ArrowDown") => FocusAfter("ArrowUp") = x
             /\ KeyPressedOn(x, "ArrowUp") => FocusAfter("ArrowDown") = x
      ]_vars

(***************************************************************************)
(* C32: the Annotator does not depend on depth values that are already     *)
(* there and is idempotent: after init() every Level of a MenuContainer    *)
(* that carried an authored data-depth holds the depth its nesting gives,  *)
(* and running the Annotator a second time leaves the depths of the first  *)
(* run.                                                                    *)
(***************************************************************************)
\* the Levels of MenuContainer m whose markup carries a data-depth
AuthoredLevels(m) == {u \in SelUl \cap Descendants(m) : D[u].depth # Null}

C32_AnnotatorAuthoritative ==
    (last.op \in {"init", "reinit"} /\ ~ raised) =>
        \A m \in Containers :
            /\ \A u \in AuthoredLevels(m) :
                  attr[u]["data-depth"] = toString(LevelDepth(u))
            /\ setMenuDepthAttributes(attr, m) = attr

(***************************************************************************)
(* C33: after the mobile menu is closed (by a click on the trigger, by     *)
(* Escape or by an outside click) no outside-click listener of its Mobile  *)
(* Collapse Controller remains registered on the window, and over any      *)
(* number of open/close cycles at most one such listener is registered at  *)
(* a time.                                                                 *)
(***************************************************************************)
\* the outside-click listeners of the Mobile Collapse Controller of
\* MenuContainer m
OutsideClickListeners(m) ==
    SelectSeq(listeners, LAMBDA l : /\ l.target = Window
                                    /\ l.type = "click"
                                    /\ l.handler = "onWindowClick"
                                    /\ l.self.domNode = m)

C33_OutsideClickListenerReleased ==
    Initialised =>
        \A m \in Containers :
            /\ Len(OutsideClickListeners(m)) <= 1
            /\ (TriggerOf(m) # 0 /\ ~ Expanded(TriggerOf(m)))
                  => OutsideClickListeners(m) = << >>

(***************************************************************************)
(* C34: the outcome of an event does not depend on the order in which the  *)
(* listeners registered for the same target run: after an outside          *)
(* pointer-down with two or more Controllers expanded, the expanded states *)
(* and the focused element are the same for every execution order of the   *)
(* per-Controller listeners.                                               *)
(***************************************************************************)
\* the orders in which the listeners of ls can run
Orders(ls) ==
    {[i \in 1..Len(ls) |-> ls[p[i]]] : p \in Permutations(1..Len(ls))}

\* the pointer is pressed outside the MenuContainer of every expanded
\* Controller
PressedOutside ==
    /\ last'.op = "mousedown"
    /\ \A c \in Open : ~ contains(ContainerOf(c), last'.target)

C34_ListenerOrderIrrelevant ==
    [][(Initialised /\ PressedOutside /\ Cardinality(Open) >= 2)
       => \A ls \in Orders(ListenersAt(Now, Document, "mousedown")) :
             LET st == runMousedownEach(Now, ls,
                                        Event("mousedown", last'.target, ""))
             IN  /\ \A c \in Controllers :
                       st.attr[c]["aria-expanded"] = attr'[c]["aria-expanded"]
                 /\ st.focus = focus'
      ]_vars

(***************************************************************************)
(* C35: on desktop, after any sequence of clicks, key presses and outside  *)
(* pointer-downs, no expanded Controller sits inside a collapsed submenu:  *)
(* whenever a Controller is expanded, every Controller on its ancestor     *)
(* chain is expanded too.                                                  *)
(***************************************************************************)
\* every Controller above an expanded Controller is expanded
ExpandedChain == \A c \in Open : AncestorControllers(c) \subseteq Open

\* the step is a click, key press or pointer-down on an element the user
\* can see, or on the body
UserEvent ==
    /\ last'.op \in {"click", "keydown", "mousedown"}
    /\ last'.target \in Elements => checkVisibility(attr, last'.target)

C35_ExpandedChain ==
    [][(Initialised /\ ~ mobileSeen /\ ExpandedChain /\ UserEvent)
       => ExpandedChain']_vars

(***************************************************************************)
(* C36: after an arrow-key or Escape press handled by the Navigation       *)
(* Engine the focused element is never an item hidden inside a collapsed   *)
(* submenu, that is, an item one of whose ancestor Controllers is          *)
(* collapsed.                                                              *)
(***************************************************************************)
NavigationKeys == {"ArrowUp", "ArrowDown", "ArrowLeft", "ArrowRight", "Escape"}

\* the step is a press of a navigation key on a visible item of a menu
NavigationKeyPressed ==
    /\ last'.op = "keydown"
    /\ last'.key \in NavigationKeys
    /\ last'.target \in PlainLinks \cup Controllers
    /\ checkVisibility(attr, last'.target)

C36_FocusNeverHidden ==
    [][(Initialised /\ NavigationKeyPressed)
       => \A c \in AncestorControllers(focus') : Expanded(c)']_vars

(***************************************************************************)
(* C37: MenuContainers are isolated at runtime: a key press or click       *)
(* handled for an element of one MenuContainer never changes the expanded  *)
(* state of a Controller in another MenuContainer and never moves the      *)
(* focus into another MenuContainer, also when two containers carry        *)
(* Controllers with equal identifiers.                                     *)
(***************************************************************************)
\* the step is a click or key press on an element of MenuContainer m
HandledIn(m) ==
    /\ last'.op \in {"click", "keydown"}
    /\ last'.target \in Elements
    /\ ContainerOf(last'.target) = m

C37_ContainersIsolated ==
    [][\A m \in Containers :
          (Initialised /\ HandledIn(m))
          => /\ \A c \in Controllers \ ControllersIn(m) :
                   Expanded(c)' <=> Expanded(c)
             /\ focus' # focus => ContainerOf(focus') \in {0, m}
      ]_vars

(***************************************************************************)
(* C38: for a MenuContainer whose data-breakpoint differs from the         *)
(* configured mobileBreakpoint every handler of the container classifies a *)
(* viewport width the same way: the close-all step of arrow-key top-level  *)
(* navigation is skipped at exactly the widths at which sibling            *)
(* auto-closing on click and outside pointer-down closing are skipped, so  *)
(* at such a width an ArrowLeft or ArrowRight collapses no Controller.     *)
(***************************************************************************)
\* the MenuContainers that carry a breakpoint of their own
OwnBreakpoint ==
    {m \in Containers : getMobileBreakpoint(attr, m) # Cfg.mobileBreakpoint}

C38_OneClassification ==
    [][\A m \in OwnBreakpoint :
          ( /\ Initialised
            /\ HandledIn(m)
            /\ last'.key \in {"ArrowLeft", "ArrowRight"}
            /\ MobileFor(m) )
          => \A c \in ControllersIn(m) : Expanded(c) => Expanded(c)'
      ]_vars

(***************************************************************************)
(* C39: each click on a mobile trigger flips the open state of the mobile  *)
(* menu exactly once (closed becomes open, open becomes closed), also when *)
(* several MenuContainers name the same trigger and when the trigger was   *)
(* authored without an aria-expanded attribute, which counts as closed.    *)
(***************************************************************************)
C39_TriggerClickToggles ==
    [][\A t \in Triggers :
          (Initialised /\ MenusOf(t) # {} /\ ClickedOn(t))
          => (Expanded(t)' <=> ~ Expanded(t))
      ]_vars

(***************************************************************************)
(* C40: init() and every key handler terminate on every finite menu tree   *)
(* annotated and bound by init(): the depth recursion of the Annotator,    *)
(* the first-item recursion of focusFirstItem through non-interactive      *)
(* wrappers and the ancestor walk of findControllerItem always finish.     *)
(* A recursion or loop that has not stopped after as many steps as the     *)
(* document has elements has come back to an element it already visited    *)
(* and, as no step changes an attribute, never stops.                      *)
(***************************************************************************)
\* the number of elements of the document
MaxCalls == Len(D)

RECURSIVE DepthHalts(_, _), FirstItemHalts(_, _), ControllerItemHalts(_, _)
\* setDepthRecursively(menuElement, ...) returns within fuel nested calls
DepthHalts(menuElement, fuel) ==
    \A i \in 1..Len(Submenus(menuElement)) :
        fuel > 0 /\ DepthHalts(Submenus(menuElement)[i], fuel - 1)

\* focusFirstItem(element) returns within fuel nested calls
FirstItemHalts(element, fuel) ==
    \/ focusFirstItemNext(attr, element) = 0
    \/ fuel > 0 /\ FirstItemHalts(focusFirstItemNext(attr, element), fuel - 1)

\* the loop of findControllerItem, at currentElement, ends within fuel
\* further rounds
ControllerItemHalts(currentElement, fuel) ==
    \/ findControllerItemNext(attr, currentElement) = 0
    \/ fuel > 0 /\ ControllerItemHalts(
                       findControllerItemNext(attr, currentElement), fuel - 1)

C40_RecursionsHalt ==
    Initialised =>
        /\ \A m \in Containers :
              TopLevelMenu(m) # 0 => DepthHalts(TopLevelMenu(m), MaxCalls)
        /\ \A element \in Elements : FirstItemHalts(element, MaxCalls)
        /\ \A element \in Elements : ControllerItemHalts(element, MaxCalls)

\* ArrowDown on a top-level Controller has opened a submenu that begins
\* with a wrapper, so that focusFirstItem called itself; the Annotator
\* went into a nested Level and the walk of findControllerItem has an
\* item to go up from
C40_WitnessWrapper ==
    /\ Initialised
    /\ last.op = "keydown" /\ last.key = "ArrowDown"
    /\ last.target \in Controllers
    /\ Expanded(last.target)
    /\ focusFirstItemNext(attr, last.target) # 0
    /\ \E u \in SelUl : attr[u]["data-depth"] = "1"
    /\ \E element \in PlainLinks : findControllerItemNext(attr, element) # 0

=============================================================================
